---- MODULE Spec2Model ----
(***************************************************************************)
(* A model of the web3mq_mls client engine: the per-user orchestrator      *)
(* (service/user.rs), its persistent keystore (storage/), and the          *)
(* Delivery Service (DS) as seen through the adapter (service/backend.rs). *)
(*                                                                         *)
(* Every action is one whole operation of one user.  The DS requests an    *)
(* operation makes can each fail; the failure point is an input of the     *)
(* action.  A panic (unwrap/expect on an error, a runtime borrow error)    *)
(* ends the process: the in-memory User is lost, the files stay.           *)
(*                                                                         *)
(* The MLS library is an external collaborator.  A group state is          *)
(* abstracted to its lineage (the commits applied since creation), its     *)
(* member set, its pending commit and its per-epoch message ratchet.       *)
(*                                                                         *)
(* Four specifications share the state and the actions.  Spec: membership  *)
(* and persistence, with failing DS requests and interrupted saves.        *)
(* SpecMsg: the same operations without failures, with send_msg and        *)
(* read_msg.  SpecUpd: Spec with update, the pull of a group's events.     *)
(* SpecNet: the NetworkingConfig singleton and its setup.                  *)
(***************************************************************************)
EXTENDS Integers, Sequences, FiniteSets, TLC

Users == {"Alice", "Bob"}
Groups == {"g1"}
Texts == {"ping", "pong"}

\* The code does not depend on the user id, so the roles are fixed: Alice
\* creates groups, Bob publishes key packages and is invited.
Creators == {"Alice"}
Invitees == {"Bob"}

\* Bounds of the model.
MaxEpoch == 2      \* no commit is created from an epoch >= MaxEpoch
MaxGen == 1        \* application messages a member sends per epoch
MaxKp == 2         \* key packages a user generates
MaxNew == 2        \* times User::new runs for one user id
MaxLog == 3        \* entries the DS keeps per group
MaxConv == 2       \* messages a conversation log holds
MaxAir == 2        \* ciphertexts send_msg returns in one behaviour
MaxFaults == 1     \* failed DS requests and interrupted saves in one behaviour

VARIABLES
    mem,      \* mem[u]: the in-memory User of u, live while u's host holds it
    disk,     \* disk[u]: the two persisted blobs of u (User, keystore)
    ds,       \* the Delivery Service: key packages, per-group log, group info
    air,      \* hex ciphertexts returned by send_msg (the host transmits them)
    fresh,    \* counters: fresh signature keys and key packages, injected faults
    net,      \* the process-wide NetworkingConfig singleton
    setup,    \* the NetworkingConfig::setup calls in flight, and the field locks
    adapter,  \* the request signer: the clock, the calls made, the request sent
    last      \* the last operation: its name, user, result and event trace

vars == <<mem, disk, ds, air, fresh, net, setup, adapter, last>>

(***************************************************************************)
(* Small helpers for finite maps (functions with a finite domain).         *)
(***************************************************************************)
EmptyMap == [x \in {} |-> 0]

MapPut(f, k, v) == [x \in (DOMAIN f) \cup {k} |-> IF x = k THEN v ELSE f[x]]

MapDel(f, k) == [x \in (DOMAIN f) \ {k} |-> f[x]]

(***************************************************************************)
(* The MLS library (openmls), as the orchestrator uses it.                 *)
(***************************************************************************)
\* A key package: its owner and its number among the owner's packages.
NoKp == [o |-> "", n |-> 0]

\* A commit is described by what it does; a lineage is the sequence of the
\* descriptors applied since the group was created.  An add names the key
\* package it adds, so two adds of one user are two different commits.
Descr(kind, by, target, kp) ==
    [kind |-> kind, by |-> by, target |-> target, kp |-> kp]

\* MlsGroup::new_with_group_id
MlsNewGroup(g, u) ==
    [ gid |-> g,
      lin |-> << Descr("create", u, u, NoKp) >>,
      members |-> {u},
      pending |-> << >>,
      active |-> TRUE,
      gen |-> 0,
      seen |-> {} ]

\* MlsGroup::epoch
Epoch(m) == Len(m.lin) - 1

\* The member set after a commit described by d.
MembersAfter(members, d) ==
    CASE d.kind = "add" -> members \cup {d.target}
      [] d.kind = "remove" -> members \ {d.target}
      [] d.kind = "external" -> members \cup {d.by}
      [] OTHER -> members

\* The group state of the next epoch: a new lineage, a new member set and a
\* fresh secret tree (no generation used yet).
NextEpoch(m, d, stillIn) ==
    [ m EXCEPT !.lin = Append(m.lin, d),
               !.members = MembersAfter(m.members, d),
               !.pending = << >>,
               !.active = stillIn,
               !.gen = 0,
               !.seen = {} ]

\* MlsGroup::merge_pending_commit: Ok(()) without effect when nothing is
\* pending, an error when the group is inactive.
MergePendingOk(m) == m.active

\* A variant that drops the pending commit without applying it.
MergePendingCommitDrop(m) == [m EXCEPT !.pending = << >>]

MergePendingCommit(m) ==
    IF m.pending = << >> THEN m ELSE NextEpoch(m, m.pending[1].d, TRUE)

\* An MLS message as it travels: the lineage (epoch) it was created on and
\* its wire format; a commit says what it does, an application message has a
\* sender, a generation and a text, a Welcome names the key package it
\* was encrypted to and carries the state of the epoch it opens.
Msg(type, wire, g, parent, d, gen, text, members, kp) ==
    [ type |-> type, wire |-> wire, gid |-> g, parent |-> parent, d |-> d,
      gen |-> gen, text |-> text, members |-> members, kp |-> kp ]

CommitMsg(m, d, wire) == Msg("commit", wire, m.gid, m.lin, d, 0, "", {}, NoKp)

\* MlsGroup::add_members / remove_members refuse when the group is inactive
\* or a commit is pending.
Operational(m) == m.active /\ m.pending = << >>

AddMembersOk(m, kp) == Operational(m) /\ kp.o \notin m.members

\* The Welcome of an add: the state of the epoch the commit creates.
WelcomeMsg(m, d, kp) ==
    Msg("welcome", "Welcome", m.gid, Append(m.lin, d), d, 0, "",
        MembersAfter(m.members, d), kp)

\* The exported GroupInfo of the epoch a pending commit creates.
GroupInfoAfter(m, d) ==
    [ gid |-> m.gid, lin |-> Append(m.lin, d),
      members |-> MembersAfter(m.members, d) ]

(***************************************************************************)
(* Conversation log (service/conversation.rs).                             *)
(***************************************************************************)
ConversationDefault == [ messages |-> << >>, cache |-> EmptyMap ]

ConversationMessage(text, sender) == [ text |-> text, sender |-> sender ]

\* add(message, fingerprint?): fp is << >> (None) or <<h>> (Some(h)).
ConversationAdd(c, message, fp) ==
    [ messages |-> Append(c.messages, message),
      cache |-> IF fp = << >> THEN c.cache
                ELSE MapPut(c.cache, fp[1], message.text) ]

\* get_cached_message(fingerprint): << >> (None) or <<text>>.
GetCachedMessage(c, h) ==
    IF h \in DOMAIN c.cache THEN << c.cache[h] >> ELSE << >>

(***************************************************************************)
(* Persistent keystore (storage/persistent_key_store.rs).  The keys the    *)
(* MLS library uses are group ids (MlsGroup::save), key-package hash       *)
(* references and signature public keys; the map is kept by kind.          *)
(***************************************************************************)
KeyStoreDefault == [ grp |-> EmptyMap, kp |-> {}, sig |-> {} ]

KsStoreGroup(ks, g, m) == [ks EXCEPT !.grp = MapPut(ks.grp, g, m)]

KsReadGroup(ks, g) == IF g \in DOMAIN ks.grp THEN << ks.grp[g] >> ELSE << >>

KsStoreKp(ks, kp) == [ks EXCEPT !.kp = ks.kp \cup {kp}]

KsDeleteKp(ks, kp) == [ks EXCEPT !.kp = ks.kp \ {kp}]

KsStoreSig(ks, s) == [ks EXCEPT !.sig = ks.sig \cup {s}]

\* base64 with a named alphabet: decoding undoes encoding of the same alphabet.
B64Encode(alphabet, x) == [ b64 |-> alphabet, raw |-> x ]

B64DecodeOk(alphabet, y) == y.b64 = alphabet

B64Decode(alphabet, y) == y.raw

\* PersistentKeyStore::save_to_file (native): the standard alphabet.
KsSerialize(ks) == B64Encode("standard", ks)

\* PersistentKeyStore::load_from_file (native).
KsDeserialize(blob) == B64Decode("standard", blob)

(***************************************************************************)
(* Identity (service/identity.rs).                                         *)
(***************************************************************************)
\* Identity::new: a fresh signature key pair, an empty key-package pool.
IdentityNew(u, n) == [ sig |-> [o |-> u, n |-> n], kp |-> {} ]

\* Identity::add_key_package: a fresh key package under its hash reference.
IdentityAddKeyPackage(id, kp) == [id EXCEPT !.kp = id.kp \cup {kp}]

(***************************************************************************)
(* The User object.                                                        *)
(***************************************************************************)
NoIdentity == [ sig |-> [o |-> "", n |-> 0], kp |-> {} ]

\* No live process for the user.
NoUser ==
    [ live |-> FALSE, groups |-> EmptyMap, group_list |-> {},
      identity |-> NoIdentity, autosave_enabled |-> FALSE,
      mls_sync_timestamp |-> 0, keystore |-> KeyStoreDefault ]

\* User::new
UserNew(u, n) ==
    [ live |-> TRUE, groups |-> EmptyMap, group_list |-> {},
      identity |-> IdentityNew(u, n), autosave_enabled |-> FALSE,
      mls_sync_timestamp |-> 0,
      keystore |-> KsStoreSig(KeyStoreDefault, [o |-> u, n |-> n]) ]

Group(g, m, c) == [ group_id |-> g, conversation |-> c, mls_group |-> m ]

\* The serialized User: every field but the skipped backend and crypto.
UserBlob(U) ==
    [ groups |-> U.groups, group_list |-> U.group_list,
      identity |-> U.identity, autosave_enabled |-> U.autosave_enabled,
      mls_sync_timestamp |-> U.mls_sync_timestamp ]

NoDisk == [ user |-> << >>, ks |-> << >> ]

\* "now" in the DS's time: the number of requests the DS has accepted.
LogLen == LET RECURSIVE Sum(_)
              Sum(S) == IF S = {} THEN 0
                        ELSE LET g == CHOOSE x \in S : TRUE
                             IN Len(ds.log[g]) + Sum(S \ {g})
          IN Sum(Groups)

Now == LogLen + 1


(***************************************************************************)
(* MLS message processing (MlsGroup::process_message and what follows).    *)
(***************************************************************************)
\* bytes_to_hex of the serialized message, and hex_to_bytes + deserialize.
Hex(msg) == [ hex |-> msg ]

Unhex(h) == h.hex

AppMsg(m, u, text) ==
    Msg("app", "Private", m.gid, m.lin, Descr("app", u, u, NoKp), m.gen, text, {}, NoKp)

\* The generation of a sender's handshake ratchet, which encrypts its
\* proposals; kept apart from the generations of the application ratchet.
HsGen == MaxGen + 1

\* A proposal of another client: an Add or Remove proposal of a member, or
\* the Add proposal of an outsider for itself (kind "join", sent as a
\* PublicMessage with the sender NewMemberProposal).
ProposalMsg(m, kind, by, target, wire) ==
    Msg("proposal", wire, m.gid, m.lin, Descr(kind, by, target, NoKp), HsGen, "",
        {}, NoKp)

\* A variant that accepts a commit or message of any epoch of the group.
ProcessMessageOkAnyEpoch(m, self, msg) ==
    /\ m.active
    /\ msg.gid = m.gid
    /\ CASE msg.type = "app" ->
              /\ msg.d.by \in m.members
              /\ msg.d.by # self
         [] msg.type = "commit" /\ msg.d.kind = "external" ->
              msg.wire = "Public"
         [] msg.type = "commit" /\ msg.d.kind = "add" ->
              /\ msg.wire = "Private"
              /\ msg.d.by \in m.members /\ msg.d.by # self
         [] msg.type = "commit" /\ msg.d.kind = "remove" ->
              /\ msg.wire = "Private"
              /\ msg.d.by \in m.members /\ msg.d.by # self
         [] msg.type = "proposal" /\ msg.d.kind = "join" ->
              /\ msg.wire = "Public"
              /\ msg.d.by = msg.d.target /\ msg.d.by # self
         [] msg.type = "proposal" /\ msg.d.kind \in {"add", "remove"} ->
              /\ msg.wire = "Private"
              /\ msg.d.by \in m.members /\ msg.d.by # self
         [] OTHER -> FALSE

\* Whether the member `self` holding state m accepts the message.  A message
\* of another epoch or of another branch of the group is refused; so is one's
\* own message (for an external commit: the one pending in this very state),
\* a handshake message in plaintext that is no external commit (the default
\* wire format policy), and an application message whose ratchet generation
\* was used before.
ProcessMessageOk(m, self, msg) ==
    /\ m.active
    /\ msg.gid = m.gid
    /\ msg.parent = m.lin
    /\ CASE msg.type = "app" ->
              /\ msg.d.by \in m.members
              /\ msg.d.by # self
              /\ <<msg.d.by, msg.gen>> \notin m.seen
         [] msg.type = "commit" /\ msg.d.kind = "external" ->
              /\ msg.wire = "Public"
              /\ m.pending # << msg >>      \* not the own pending commit
         [] msg.type = "commit" /\ msg.d.kind = "add" ->
              /\ msg.wire = "Private"
              /\ msg.d.by \in m.members /\ msg.d.by # self
              /\ msg.d.target \notin m.members
         [] msg.type = "commit" /\ msg.d.kind = "remove" ->
              /\ msg.wire = "Private"
              /\ msg.d.by \in m.members /\ msg.d.by # self
              /\ msg.d.target \in m.members /\ msg.d.target # msg.d.by
         [] msg.type = "proposal" /\ msg.d.kind = "join" ->
              /\ msg.wire = "Public"
              /\ msg.d.by = msg.d.target /\ msg.d.by # self
         [] msg.type = "proposal" /\ msg.d.kind \in {"add", "remove"} ->
              /\ msg.wire = "Private"
              /\ msg.d.by \in m.members /\ msg.d.by # self
              /\ <<msg.d.by, msg.gen>> \notin m.seen
         [] OTHER -> FALSE

\* StagedCommit::self_removed: the commit removes the own leaf.  An external
\* commit made with the own signature key replaces (removes) the old leaf.
SelfRemoved(d, self) ==
    \/ d.kind = "remove" /\ d.target = self
    \/ d.kind = "external" /\ d.by = self

\* A variant that discards the staged commit.
MergeStagedCommitDiscard(m, d, self) == m

\* MlsGroup::merge_staged_commit
MergeStagedCommit(m, d, self) == NextEpoch(m, d, ~SelfRemoved(d, self))

\* The state after an application message was decrypted: its generation of
\* the sender's ratchet is used up.
AfterAppMsg(m, msg) == [m EXCEPT !.seen = @ \cup {<<msg.d.by, msg.gen>>}]

\* A variant that stores the proposal and commits it at once.
AfterProposalMsgCommitted(m, msg) ==
    NextEpoch(m, [msg.d EXCEPT !.kind = IF @ = "join" THEN "add" ELSE @], TRUE)

\* The state after a proposal was processed: process_message hands it out in
\* the ProcessedMessage and does not store it; a member's proposal has used
\* up its generation of the sender's handshake ratchet.
AfterProposalMsg(m, msg) ==
    IF msg.wire = "Private"
    THEN [m EXCEPT !.seen = @ \cup {<<msg.d.by, msg.gen>>}]
    ELSE m

\* The state process_message and the arms of process_protocol_message leave.
AfterMessage(m, msg, self) ==
    CASE msg.type = "commit" -> MergeStagedCommit(m, msg.d, self)
      [] msg.type = "proposal" -> AfterProposalMsg(m, msg)
      [] OTHER -> AfterAppMsg(m, msg)

(***************************************************************************)
(* UserStore::save and UserStore::load (native).                           *)
(***************************************************************************)
\* The loop of save: list every group and have it persist itself into the
\* (in-memory) keystore.
\* A variant that lists the groups without persisting their MLS state.
RECURSIVE SaveGroupsListOnly(_, _)
SaveGroupsListOnly(U, gs) ==
    IF gs = {} THEN U
    ELSE LET g == CHOOSE x \in gs : TRUE
         IN SaveGroupsListOnly([U EXCEPT !.group_list = @ \cup {g}], gs \ {g})

RECURSIVE SaveGroups(_, _)
SaveGroups(U, gs) ==
    IF gs = {} THEN U
    ELSE LET g == CHOOSE x \in gs : TRUE
             U1 == [U EXCEPT !.group_list = @ \cup {g},
                             !.keystore = KsStoreGroup(@, g, U.groups[g].mls_group)]
         IN SaveGroups(U1, gs \ {g})

\* save, cut or not between its two writes: the User blob is written first,
\* the keystore blob second.  io = "cut" is the process ending in between.
SaveWrites(U, D, io) ==
    LET U1 == SaveGroups(U, DOMAIN U.groups)
        D1 == [D EXCEPT !.user = << UserBlob(U1) >>]
        D2 == [D1 EXCEPT !.ks = << KsSerialize(U1.keystore) >>]
    IN IF io = "cut" THEN [ mem |-> NoUser, disk |-> D1 ]
       ELSE [ mem |-> U1, disk |-> D2 ]

Save(U, D, io) == SaveWrites(U, D, io)

\* autosave: save when enabled.
Autosave(U, D, io) ==
    IF U.autosave_enabled THEN Save(U, D, io) ELSE [ mem |-> U, disk |-> D ]

\* The rehydration loop of load.
RECURSIVE LoadGroups(_, _)
LoadGroups(U, gs) ==
    IF gs = {} THEN U
    ELSE LET g == CHOOSE x \in gs : TRUE
             grp == Group(g, KsReadGroup(U.keystore, g)[1], ConversationDefault)
         IN LoadGroups([U EXCEPT !.groups = MapPut(@, g, grp)], gs \ {g})

\* load: "err" when a file is missing, "panic" when the keystore has no state
\* for a listed group (unwrap of MlsGroup::load).
LoadResult(D) ==
    IF D.user = << >> \/ D.ks = << >> THEN "err"
    ELSE IF ~B64DecodeOk("standard", D.ks[1]) THEN "panic"
    ELSE IF \E g \in D.user[1].group_list :
                KsReadGroup(KsDeserialize(D.ks[1]), g) = << >>
         THEN "panic"
    ELSE "ok"

Load(D) ==
    LET b == D.user[1]
        U == [ live |-> TRUE, groups |-> b.groups, group_list |-> b.group_list,
               identity |-> b.identity, autosave_enabled |-> b.autosave_enabled,
               mls_sync_timestamp |-> b.mls_sync_timestamp,
               keystore |-> KsDeserialize(D.ks[1]) ]
    IN LoadGroups(U, U.group_list)

(***************************************************************************)
(* The record of the last operation.                                       *)
(***************************************************************************)
NoHex == << >>

Last(op, u, g, res, trace) ==
    [ op |-> op, u |-> u, g |-> g, res |-> res, trace |-> trace,
      arg |-> "", hex |-> NoHex, text |-> "",
      removed |-> FALSE, joined |-> FALSE, wire |-> "", ev |-> << >>,
      published |-> << >> ]

EpochOf(U, g) == IF g \in DOMAIN U.groups THEN Epoch(U.groups[g].mls_group) ELSE -1

\* What an operation returns to its action: the User, the files, the DS, and
\* the record of what happened.
Outcome(U, D, S, L) == [ mem |-> U, disk |-> D, ds |-> S, last |-> L ]

\* A panic ends the process.
Panicked(D, S, L) == Outcome(NoUser, D, S, [L EXCEPT !.res = "panic"])

\* The tail of a successful state-mutating operation: autosave.
Finish(U, D, S, L, io) ==
    LET sv == Autosave(U, D, io)
    IN Outcome(sv.mem, sv.disk, S,
               [L EXCEPT !.res = IF sv.mem.live THEN "ok" ELSE "cut",
                         !.trace = IF U.autosave_enabled
                                   THEN Append(L.trace, "save") ELSE L.trace])

\* The exported operations load the User, act on it and drop it: the User of
\* one user id is live at a time, the one the last operation acted on.  A
\* host that keeps it can go on with it; any other operation starts by load.
Only(u, U) == [v \in Users |-> IF v = u THEN U ELSE NoUser]

Apply(u, o) ==
    /\ mem' = Only(u, o.mem)
    /\ disk' = [disk EXCEPT ![u] = o.disk]
    /\ ds' = o.ds
    /\ last' = o.last

IoOutcomes == {"ok", "cut"}

(***************************************************************************)
(* The Delivery Service, as the adapter's requests change it.              *)
(***************************************************************************)
\* POST /api/user/key_package/: the DS offers the posted packages, but never
\* again one it has handed out.
DsRegisterKeyPackages(S, u, pool) ==
    [S EXCEPT !.kps[u] = (@ \cup pool) \ S.used]

\* POST /api/user/get_key_package/: the DS hands out kp and reserves it.
DsConsumeKeyPackage(S, target, kp) ==
    [S EXCEPT !.kps[target] = @ \ {kp}, !.used = @ \cup {kp}]

\* POST /api/group/mls_state/: one more entry of the group, for a topic.
\* (at: the sender's epoch on the group when it sends, kept for reference.)
DsPost(S, g, msg, to, at) ==
    [S EXCEPT !.log[g] = Append(@, [ msg |-> msg, to |-> to, at |-> at ])]

\* Publishing a group's VerifiableGroupInfo, and fetching it.
DsPublishGroupInfo(S, gi) == [S EXCEPT !.gi[gi.gid] = << gi >>]

DsGetGroupInfo(S, g) == S.gi[g]

DsRoom(S, g, n) == Len(S.log[g]) + n <= MaxLog

(***************************************************************************)
(* Operations.                                                             *)
(***************************************************************************)
\* A failure (a failed DS request, a save cut between its writes) is an
\* input of the operation; a behaviour has at most MaxFaults of them.
Faulty(fail, io) == (fail # "none") \/ (io # "ok")

Budget(fail, io) ==
    /\ Faulty(fail, io) => fresh.faults < MaxFaults
    /\ fresh' = [fresh EXCEPT !.faults = IF Faulty(fail, io) THEN @ + 1 ELSE @]

\* User::enable_auto_save
EnableAutoSave(U) == [U EXCEPT !.autosave_enabled = TRUE]

\* User::register: publishes the current key-package pool.
Register(U, S, u) == DsRegisterKeyPackages(S, u, U.identity.kp)

\* initial_user (lib.rs): nothing when the user loads; else a new user with
\* autosave enabled is registered and saved.
InitialUserOp(D, S, u, n, fail, io) ==
    LET r == LoadResult(D)
        L == Last("initial_user", u, "", "ok", << >>)
        U1 == EnableAutoSave(UserNew(u, n))
        sv == Save(U1, D, io)
    IN IF r = "panic" THEN Panicked(D, S, L)
       ELSE IF r = "ok" THEN Outcome(Load(D), D, S, [L EXCEPT !.arg = "loaded"])
       ELSE IF fail = "register" THEN Outcome(NoUser, D, S, [L EXCEPT !.res = "err"])
       ELSE Outcome(sv.mem, sv.disk, Register(U1, S, u),
                    [L EXCEPT !.arg = "created",
                              !.res = IF io = "cut" THEN "cut" ELSE "ok"])

InitialUser(u, fail, io) ==
    /\ ~mem[u].live
    /\ Faulty(fail, io) => fresh.faults < MaxFaults
    /\ LET o == InitialUserOp(disk[u], ds, u, fresh.sig[u] + 1, fail, io)
           made == LoadResult(disk[u]) = "err"
       IN /\ made => fresh.sig[u] < MaxNew
          /\ Apply(u, o)
          /\ fresh' = [fresh EXCEPT
                 !.sig[u] = IF made THEN @ + 1 ELSE @,
                 !.faults = IF made /\ Faulty(fail, io) THEN @ + 1 ELSE @]
    /\ UNCHANGED <<air, net, setup, adapter>>

\* UserStore::save, called by the host
SaveUser(u, io) ==
    /\ mem[u].live
    /\ Budget("none", io)
    /\ LET sv == Save(mem[u], disk[u], io)
       IN Apply(u, Outcome(sv.mem, sv.disk, ds,
                   Last("save", u, "", IF io = "cut" THEN "cut" ELSE "ok", << >>)))
    /\ UNCHANGED <<air, net, setup, adapter>>

\* UserStore::load, called by the host (every public operation starts so)
LoadUser(u) ==
    /\ LET r == LoadResult(disk[u])
       IN /\ mem' = Only(u, IF r = "ok" THEN Load(disk[u]) ELSE NoUser)
          /\ last' = Last("load", u, "", r, << >>)
    /\ UNCHANGED <<disk, ds, air, fresh, net, setup, adapter>>

\* User::create_group
CreateGroupOp(U, D, S, u, g, io) ==
    LET L == Last("create_group", u, g, "ok", << >>)
        grp == Group(g, MlsNewGroup(g, u), ConversationDefault)
    IN IF g \in DOMAIN U.groups THEN Panicked(D, S, L)
       ELSE Finish([U EXCEPT !.groups = MapPut(@, g, grp)], D, S, L, io)

CreateGroup(u, g, io) ==
    /\ mem[u].live
    /\ Budget("none", io)
    /\ Apply(u, CreateGroupOp(mem[u], disk[u], ds, u, g, io))
    /\ UNCHANGED <<air, net, setup, adapter>>

(***************************************************************************)
(* Key packages.                                                           *)
(***************************************************************************)
\* User::add_key_package: the package joins the identity's pool and its
\* private parts the keystore.
AddKeyPackage(U, kp) ==
    [U EXCEPT !.identity = IdentityAddKeyPackage(@, kp),
              !.keystore = KsStoreKp(@, kp)]

\* User::key_packages_map
KeyPackagesMap(U) == U.identity.kp

\* User::create_kp_and_publish: ok is whether the DS request succeeds.
\* Returns the User, the DS, whether it returned Ok, and the pool the DS
\* accepted (<< >>: none).
CreateKpAndPublish(U, S, u, kp, ok) ==
    LET U1 == AddKeyPackage(U, kp)
    IN [ mem |-> U1,
         ds |-> IF ok THEN DsRegisterKeyPackages(S, u, KeyPackagesMap(U1)) ELSE S,
         ok |-> ok,
         published |-> IF ok THEN << KeyPackagesMap(U1) >> ELSE << >> ]

FreshKp(u) == [ o |-> u, n |-> fresh.kp[u] + 1 ]

CreateKp(u, ok) ==
    /\ mem[u].live
    /\ fresh.kp[u] < MaxKp
    /\ mem[u].identity.kp = {}      \* the host tops up an empty pool
    /\ ~ok => fresh.faults < MaxFaults
    /\ LET r == CreateKpAndPublish(mem[u], ds, u, FreshKp(u), ok)
       IN Apply(u, Outcome(r.mem, disk[u], r.ds,
                   [Last("create_kp_and_publish", u, "",
                         IF ok THEN "ok" ELSE "err", << >>)
                       EXCEPT !.published = r.published]))
    /\ fresh' = [fresh EXCEPT !.kp[u] = @ + 1,
                              !.faults = IF ok THEN @ ELSE @ + 1]
    /\ UNCHANGED <<air, net, setup, adapter>>

(***************************************************************************)
(* User::add_member_to_group                                               *)
(***************************************************************************)
AddFailPoints == {"none", "kp", "commit", "gi", "welcome"}

SetMls(U, g, m) == [U EXCEPT !.groups[g].mls_group = m]

\* A variant that merges before it sends the commit.
AddMemberStepsMergeFirst(U, D, S, L, u, member, g, kp, fail, io) ==
    LET m == U.groups[g].mls_group
        d == Descr("add", u, member, kp)
        commit == CommitMsg(m, d, "Private")
        welcome == WelcomeMsg(m, d, kp)
        U1 == SetMls(U, g, [m EXCEPT !.pending = << commit >>])
        L1 == [L EXCEPT !.trace = Append(@, "add_members")]
        U2 == SetMls(U1, g, MergePendingCommit(U1.groups[g].mls_group))
        L2 == [L1 EXCEPT !.trace = Append(@, "merge_pending_commit")]
        S3 == DsPost(S, g, commit, g, Epoch(U2.groups[g].mls_group))
        L3 == [L2 EXCEPT !.trace = Append(@, "send_commit")]
        S4 == DsPublishGroupInfo(S3, GroupInfoAfter(m, d))
        L4 == [L3 EXCEPT !.trace = Append(@, "publish_group_info")]
        S5 == DsPost(S4, g, welcome, member, Epoch(U2.groups[g].mls_group))
        L5 == [L4 EXCEPT !.trace = Append(@, "send_welcome")]
    IN IF fail = "commit" THEN Outcome(U2, D, S, [L2 EXCEPT !.res = "err"])
       ELSE IF fail = "gi" THEN Outcome(U2, D, S3, [L3 EXCEPT !.res = "err"])
       ELSE IF fail = "welcome" THEN Panicked(D, S4, L4)
       ELSE Finish(U2, D, S5, L5, io)

\* A variant that sends the Welcome before it publishes the group info.
AddMemberStepsWelcomeFirst(U, D, S, L, u, member, g, kp, fail, io) ==
    LET m == U.groups[g].mls_group
        d == Descr("add", u, member, kp)
        commit == CommitMsg(m, d, "Private")
        welcome == WelcomeMsg(m, d, kp)
        U1 == SetMls(U, g, [m EXCEPT !.pending = << commit >>])
        L1 == [L EXCEPT !.trace = Append(@, "add_members")]
        S2 == DsPost(S, g, commit, g, Epoch(U1.groups[g].mls_group))
        L2 == [L1 EXCEPT !.trace = Append(@, "send_commit")]
        U3 == SetMls(U1, g, MergePendingCommit(U1.groups[g].mls_group))
        L3 == [L2 EXCEPT !.trace = Append(@, "merge_pending_commit")]
        S4 == DsPost(S2, g, welcome, member, Epoch(U3.groups[g].mls_group))
        L4 == [L3 EXCEPT !.trace = Append(@, "send_welcome")]
        S5 == DsPublishGroupInfo(S4, GroupInfoAfter(m, d))
        L5 == [L4 EXCEPT !.trace = Append(@, "publish_group_info")]
    IN IF fail = "commit" THEN Outcome(U1, D, S, [L1 EXCEPT !.res = "err"])
       ELSE IF fail = "welcome" THEN Panicked(D, S2, L3)
       ELSE IF fail = "gi" THEN Outcome(U3, D, S4, [L4 EXCEPT !.res = "err"])
       ELSE Finish(U3, D, S5, L5, io)

\* The steps after add_members succeeded, in the order of the code: send the
\* commit, merge it, publish the group info, send the Welcome, autosave.
AddMemberSteps(U, D, S, L, u, member, g, kp, fail, io) ==
    LET m == U.groups[g].mls_group
        d == Descr("add", u, member, kp)
        commit == CommitMsg(m, d, "Private")
        welcome == WelcomeMsg(m, d, kp)
        gi == GroupInfoAfter(m, d)
        U1 == SetMls(U, g, [m EXCEPT !.pending = << commit >>])
        L1 == [L EXCEPT !.trace = Append(@, "add_members")]
        S2 == DsPost(S, g, commit, g, Epoch(U1.groups[g].mls_group))
        L2 == [L1 EXCEPT !.trace = Append(@, "send_commit")]
        U3 == SetMls(U1, g, MergePendingCommit(U1.groups[g].mls_group))
        L3 == [L2 EXCEPT !.trace = Append(@, "merge_pending_commit")]
        S4 == DsPublishGroupInfo(S2, gi)
        L4 == [L3 EXCEPT !.trace = Append(@, "publish_group_info")]
        S5 == DsPost(S4, g, welcome, member, Epoch(U3.groups[g].mls_group))
        L5 == [L4 EXCEPT !.trace = Append(@, "send_welcome")]
    IN IF fail = "commit" THEN Outcome(U1, D, S, [L1 EXCEPT !.res = "err"])
       ELSE IF fail = "gi" THEN Outcome(U3, D, S2, [L3 EXCEPT !.res = "err"])
       ELSE IF fail = "welcome" THEN Panicked(D, S4, L4)
       ELSE Finish(U3, D, S5, L5, io)

AddMemberToGroupOp(U, D, S, u, member, g, kp, fail, io) ==
    LET L0 == [Last("add_member_to_group", u, g, "ok", << >>)
                  EXCEPT !.arg = member]
        S1 == DsConsumeKeyPackage(S, member, kp)
        L1 == [L0 EXCEPT !.trace = Append(@, "consume_key_package")]
    IN IF fail = "kp" \/ kp \notin S.kps[member] THEN Panicked(D, S, L0)
       ELSE IF g \notin DOMAIN U.groups
            THEN Outcome(U, D, S1, [L1 EXCEPT !.res = "err"])
       ELSE IF ~AddMembersOk(U.groups[g].mls_group, kp)
            THEN Outcome(U, D, S1, [L1 EXCEPT !.res = "err"])
       ELSE AddMemberSteps(U, D, S1, L1, u, member, g, kp, fail, io)

\* The key packages the DS may hand out for a user (NoKp: it has none).
Offered(S, member) == IF S.kps[member] = {} THEN {NoKp} ELSE S.kps[member]

AddMemberToGroup(u, member, g, kp, fail, io) ==
    /\ mem[u].live
    /\ kp \in Offered(ds, member)
    /\ DsRoom(ds, g, 2)
    /\ g \in DOMAIN mem[u].groups => Epoch(mem[u].groups[g].mls_group) < MaxEpoch
    /\ fail # "none" => io = "ok"
    /\ Budget(fail, io)
    /\ Apply(u, AddMemberToGroupOp(mem[u], disk[u], ds, u, member, g, kp, fail, io))
    /\ UNCHANGED <<air, net, setup, adapter>>

(***************************************************************************)
(* User::remove                                                            *)
(***************************************************************************)
RemoveFailPoints == {"none", "commit", "gi"}

\* User::find_member_index: a member whose credential identity is the name.
FindMemberIndexOk(m, name) == name \in m.members

\* MlsGroup::remove_members: refuses as add_members does, and refuses a
\* commit that removes the committer.
RemoveMembersOk(m, u, name) == Operational(m) /\ name # u

\* The steps after remove_members succeeded, in the order of the code: send
\* the commit, publish the group info, merge, autosave.
RemoveSteps(U, D, S, L, u, name, g, fail, io) ==
    LET m == U.groups[g].mls_group
        d == Descr("remove", u, name, NoKp)
        commit == CommitMsg(m, d, "Private")
        gi == GroupInfoAfter(m, d)
        U1 == SetMls(U, g, [m EXCEPT !.pending = << commit >>])
        L1 == [L EXCEPT !.trace = Append(@, "remove_members")]
        S2 == DsPost(S, g, commit, g, Epoch(U1.groups[g].mls_group))
        L2 == [L1 EXCEPT !.trace = Append(@, "send_commit")]
        S3 == DsPublishGroupInfo(S2, gi)
        L3 == [L2 EXCEPT !.trace = Append(@, "publish_group_info")]
        U4 == SetMls(U1, g, MergePendingCommit(U1.groups[g].mls_group))
        L4 == [L3 EXCEPT !.trace = Append(@, "merge_pending_commit")]
    IN IF fail = "commit" THEN Outcome(U1, D, S, [L1 EXCEPT !.res = "err"])
       ELSE IF fail = "gi" THEN Outcome(U1, D, S2, [L2 EXCEPT !.res = "err"])
       ELSE Finish(U4, D, S3, L4, io)

RemoveOp(U, D, S, u, name, g, fail, io) ==
    LET L == [Last("remove", u, g, "err", << >>) EXCEPT !.arg = name]
    IN IF g \notin DOMAIN U.groups THEN Outcome(U, D, S, L)
       ELSE IF ~FindMemberIndexOk(U.groups[g].mls_group, name)
            THEN Outcome(U, D, S, L)
       ELSE IF ~RemoveMembersOk(U.groups[g].mls_group, u, name)
            THEN Outcome(U, D, S, L)
       ELSE RemoveSteps(U, D, S, L, u, name, g, fail, io)

Remove(u, name, g, fail, io) ==
    /\ mem[u].live
    /\ DsRoom(ds, g, 1)
    /\ g \in DOMAIN mem[u].groups => Epoch(mem[u].groups[g].mls_group) < MaxEpoch
    /\ fail # "none" => io = "ok"
    /\ Budget(fail, io)
    /\ Apply(u, RemoveOp(mem[u], disk[u], ds, u, name, g, fail, io))
    /\ UNCHANGED <<air, net, setup, adapter>>

(***************************************************************************)
(* User::handle_mls_group_event, with join_group and                       *)
(* process_protocol_message.                                               *)
(***************************************************************************)
\* MlsGroup::new_from_welcome needs the private parts of the key package the
\* Welcome was encrypted to; it consumes them.
NewFromWelcomeOk(U, welcome) == welcome.kp \in U.keystore.kp

\* A variant that joins on the epoch the add commit was created in.
MlsFromWelcomeStale(welcome) ==
    [ gid |-> welcome.gid,
      lin |-> SubSeq(welcome.parent, 1, Len(welcome.parent) - 1),
      members |-> welcome.members,
      pending |-> << >>, active |-> TRUE, gen |-> 0, seen |-> {} ]

MlsFromWelcome(welcome) ==
    [ gid |-> welcome.gid, lin |-> welcome.parent, members |-> welcome.members,
      pending |-> << >>, active |-> TRUE, gen |-> 0, seen |-> {} ]

\* A variant that clears the pool.
DropWelcomedAll(pool, welcome) == {}

\* The pool without the packages the secrets of the Welcome name (the Welcome
\* of an add of one member has one secret).
DropWelcomed(pool, welcome) == pool \ {welcome.kp}

\* A variant that joins without making a replacement key package.
JoinGroupOpNoReplacement(U, D, S, L, u, welcome, kpNew, fail, io) ==
    LET g == welcome.gid
        U1 == [U EXCEPT !.identity.kp = DropWelcomed(@, welcome)]
        L1 == [L EXCEPT !.trace = Append(@, "new_from_welcome")]
        grp == Group(g, MlsFromWelcome(welcome), ConversationDefault)
        U2 == [U1 EXCEPT !.keystore = KsDeleteKp(@, welcome.kp),
                         !.groups = MapPut(@, g, grp)]
        result == IF g \in DOMAIN U.groups THEN "err" ELSE "ok"
        L2 == [L1 EXCEPT !.joined = TRUE,
                         !.published = << KeyPackagesMap(U2) >>]
        o == Finish(U2, D, DsRegisterKeyPackages(S, u, KeyPackagesMap(U2)), L2, io)
    IN IF ~NewFromWelcomeOk(U1, welcome)
       THEN Outcome(U1, D, S, [L1 EXCEPT !.res = "err"])
       ELSE [o EXCEPT !.last.res = IF @ = "ok" THEN result ELSE @]

\* User::join_group
JoinGroupOp(U, D, S, L, u, welcome, kpNew, fail, io) ==
    LET g == welcome.gid
        U1 == [U EXCEPT !.identity.kp = DropWelcomed(@, welcome)]
        L1 == [L EXCEPT !.trace = Append(@, "new_from_welcome")]
        grp == Group(g, MlsFromWelcome(welcome), ConversationDefault)
        U2 == [U1 EXCEPT !.keystore = KsDeleteKp(@, welcome.kp),
                         !.groups = MapPut(@, g, grp)]
        result == IF g \in DOMAIN U.groups THEN "err" ELSE "ok"
        r == CreateKpAndPublish(U2, S, u, kpNew, fail # "kp")
        L2 == [L1 EXCEPT !.joined = TRUE,
                         !.trace = Append(@, "create_kp_and_publish"),
                         !.published = r.published]
        o == Finish(r.mem, D, r.ds, L2, io)
    IN IF ~NewFromWelcomeOk(U1, welcome)
       THEN Outcome(U1, D, S, [L1 EXCEPT !.res = "err"])
       ELSE IF ~r.ok THEN Outcome(r.mem, D, S, [L2 EXCEPT !.res = "err"])
       ELSE [o EXCEPT !.last.res = IF @ = "ok" THEN result ELSE @]

\* User::update_group_sync_timestamp
UpdateGroupSyncTimestamp(U, D, S, L, io) ==
    Finish([U EXCEPT !.mls_sync_timestamp = Now], D, S,
           [L EXCEPT !.trace = Append(@, "update_group_sync_timestamp")], io)

\* A variant that merges a commit MLS refused.
ProcessProtocolMessageOpUnchecked(U, D, S, L, u, msg, io) ==
    LET g == msg.gid
        m == U.groups[g].mls_group
        L1 == [L EXCEPT !.trace = Append(@, "process_message")]
        U2 == SetMls(U, g, AfterMessage(m, msg, u))
    IN IF g \notin DOMAIN U.groups
       THEN [ out |-> Outcome(U, D, S, L), act |-> "err" ]
       ELSE IF ~ProcessMessageOk(m, u, msg)
            THEN [ out |-> Outcome(U2, D, S, L1), act |-> "err" ]
       ELSE [ out |-> UpdateGroupSyncTimestamp(U2, D, S, L1, io), act |-> "none" ]

\* User::process_protocol_message: act is what it returns, "err", "remove"
\* (PostUpdateActions::Remove with the group id) or "none".
ProcessProtocolMessageOp(U, D, S, L, u, msg, io) ==
    LET g == msg.gid
        m == U.groups[g].mls_group
        L1 == [L EXCEPT !.trace = Append(@, "process_message")]
        U2 == SetMls(U, g, AfterMessage(m, msg, u))
        L2 == IF msg.type = "commit"
              THEN [L1 EXCEPT !.trace = Append(@, "merge_staged_commit"),
                              !.removed = SelfRemoved(msg.d, u)]
              ELSE L1
    IN IF g \notin DOMAIN U.groups
       THEN [ out |-> Outcome(U, D, S, L), act |-> "err" ]
       ELSE IF ~ProcessMessageOk(m, u, msg)
            THEN [ out |-> Outcome(U, D, S, L1), act |-> "err" ]
       ELSE IF msg.type = "commit" /\ SelfRemoved(msg.d, u)
            THEN [ out |-> Outcome(U2, D, S, L2), act |-> "remove" ]
       ELSE [ out |-> UpdateGroupSyncTimestamp(U2, D, S, L2, io), act |-> "none" ]

\* Drop a group from groups and from group_list.
DropGroup(U, g) ==
    [U EXCEPT !.groups = MapDel(@, g), !.group_list = @ \ {g}]

\* User::handle_mls_group_event: the Welcome joins; a PrivateMessage is
\* processed and a reported self-removal drops the group; a PublicMessage is
\* processed and the result is not looked at.
HandleMlsGroupEventOp(U, D, S, u, msg, kpNew, fail, io) ==
    LET L == [Last("handle_mls_group_event", u, msg.gid, "ok", << >>)
                 EXCEPT !.wire = msg.wire, !.ev = << msg >>]
        p == ProcessProtocolMessageOp(U, D, S, L, u, msg, io)
    IN CASE msg.wire = "Welcome" ->
              JoinGroupOp(U, D, S, L, u, msg, kpNew, fail, io)
         [] msg.wire = "Private" ->
              IF p.act = "remove"
              THEN [p.out EXCEPT !.mem = DropGroup(@, msg.gid)]
              ELSE p.out
         [] msg.wire = "Public" -> p.out
         [] OTHER -> Panicked(D, S, L)

\* What the host can hand to a user: the entries of the DS on the topics the
\* user reads (the groups' and its own), and the ciphertexts of send_msg.
Inbox(u) ==
    UNION { { ds.log[g][i].msg : i \in { j \in 1..Len(ds.log[g]) :
                                           ds.log[g][j].to \in {g, u} } }
            : g \in Groups }
      \cup { Unhex(h) : h \in air }

HandleMlsGroupEvent(u, msg, fail, io) ==
    /\ mem[u].live
    /\ msg \in Inbox(u)
    /\ LET joins == msg.wire = "Welcome" /\ NewFromWelcomeOk(mem[u], msg)
           o == HandleMlsGroupEventOp(mem[u], disk[u], ds, u, msg,
                                      FreshKp(u), fail, io)
       IN /\ joins => fresh.kp[u] < MaxKp
          /\ fail = "kp" => joins /\ io = "ok"
          /\ io = "cut" => o.last.res = "cut"
          /\ Faulty(fail, io) => fresh.faults < MaxFaults
          /\ Apply(u, o)
          /\ fresh' = [fresh EXCEPT
                 !.kp[u] = IF joins THEN @ + 1 ELSE @,
                 !.faults = IF Faulty(fail, io) THEN @ + 1 ELSE @]
    /\ UNCHANGED <<air, net, setup, adapter>>

\* The proposals other clients can send to a group the user holds, at the
\* epoch the user is on.
Proposals(u) ==
    UNION { { ProposalMsg(mem[u].groups[g].mls_group, kind, by,
                          IF kind = "join" THEN by ELSE u, wire)
               : kind \in {"remove", "join"}, by \in Users \ {u},
                 wire \in {"Private", "Public"} }
            : g \in DOMAIN mem[u].groups }

\* handle_mls_group_event with a proposal of another client.
HandleProposal(u, msg, io) ==
    /\ mem[u].live
    /\ msg \in Proposals(u)
    /\ Budget("none", io)
    /\ io = "cut" => mem[u].autosave_enabled
    /\ Apply(u, HandleMlsGroupEventOp(mem[u], disk[u], ds, u, msg,
                                      FreshKp(u), "none", io))
    /\ UNCHANGED <<air, net, setup, adapter>>

(***************************************************************************)
(* User::update and the pull of the adapter.                               *)
(***************************************************************************)
UpdateFailPoints == {"none", "pull", "kp"}

\* POST /api/group/get_mls_state/ with timestamp_gte 0: for every listed
\* group, all its entries on the topics the user reads, oldest first.
DsPull(S, u, gs) ==
    [ g \in gs |->
        LET RECURSIVE Keep(_)
            Keep(log) ==
                IF log = << >> THEN << >>
                ELSE IF Head(log).to \in {g, u}
                     THEN << Head(log).msg >> \o Keep(Tail(log))
                     ELSE Keep(Tail(log))
        IN Keep(S.log[g]) ]

\* Backend::recv_msgs: the values of the response map, one after the other
\* in the order the map is iterated (order: the groups in that order).
RECURSIVE RecvMlsEvents(_, _)
RecvMlsEvents(resp, order) ==
    IF order = << >> THEN << >>
    ELSE resp[Head(order)] \o RecvMlsEvents(resp, Tail(order))

\* One turn of the loop of update: o is what handle_mls_group_event made of
\* msg; its result is not looked at.  cur: the User, the files, the DS, the
\* key packages made so far and the messages dispatched so far.
UpdateStep(cur, msg, o) ==
    [ mem |-> o.mem, disk |-> o.disk, ds |-> o.ds,
      n |-> IF msg.wire = "Welcome" /\ NewFromWelcomeOk(cur.mem, msg)
            THEN cur.n + 1 ELSE cur.n,
      ev |-> Append(cur.ev, msg) ]

\* A variant of the loop that goes through the pulled list from its end.
RECURSIVE UpdateLoopBackwards(_, _, _, _)
UpdateLoopBackwards(cur, list, u, fail) ==
    IF list = << >> \/ ~cur.mem.live THEN cur
    ELSE UpdateLoopBackwards(
             UpdateStep(cur, list[Len(list)],
                        HandleMlsGroupEventOp(cur.mem, cur.disk, cur.ds, u,
                                              list[Len(list)],
                                              [ o |-> u, n |-> cur.n + 1 ],
                                              fail, "ok")),
             SubSeq(list, 1, Len(list) - 1), u, fail)

\* The loop of update: every pulled message goes to handle_mls_group_event;
\* an abort ends the loop with the process.
RECURSIVE UpdateLoop(_, _, _, _)
UpdateLoop(cur, list, u, fail) ==
    IF list = << >> \/ ~cur.mem.live THEN cur
    ELSE UpdateLoop(
             UpdateStep(cur, Head(list),
                        HandleMlsGroupEventOp(cur.mem, cur.disk, cur.ds, u,
                                              Head(list),
                                              [ o |-> u, n |-> cur.n + 1 ],
                                              fail, "ok")),
             Tail(list), u, fail)

\* What update leaves behind once the loop has ended in r: the process is
\* gone when a handler aborted, else autosave and Ok.
UpdateResult(r, L, io) ==
    [ out |-> IF ~r.mem.live THEN Panicked(r.disk, r.ds, L)
              ELSE Finish(r.mem, r.disk, r.ds, L, io),
      n |-> r.n ]

\* The record of an update that dispatched the messages ev.
UpdateLast(u, ev) ==
    [ Last("update", u, "", "ok", << >>) EXCEPT
        !.ev = ev,
        !.trace = [ i \in 1..Len(ev) |-> "handle_mls_group_event" ] ]

\* The end of update, from the state r the loop ended in.
UpdateEnd(r, u, io) == UpdateResult(r, UpdateLast(u, r.ev), io)

\* User::update: pull (the adapter sets mls_sync_timestamp when the pull
\* succeeded), dispatch, autosave, Ok.  n: the key packages u has made.
UpdateOp(U, D, S, u, order, n, fail, io) ==
    IF fail = "pull"
    THEN [ out |-> Outcome(U, D, S, [ Last("update", u, "", "ok", << >>)
                                        EXCEPT !.res = "err" ]),
           n |-> n ]
    ELSE UpdateEnd(
             UpdateLoop([ mem |-> [U EXCEPT !.mls_sync_timestamp = Now],
                          disk |-> D, ds |-> S, n |-> n, ev |-> << >> ],
                        RecvMlsEvents(
                            DsPull(S, u, { order[i] : i \in DOMAIN order }),
                            order),
                        u, fail),
             u, io)

\* The lists of group ids a host asks for.
Orders == { << g >> : g \in Groups }

\* Whether the entry of a group's log holds the message.
OnLog(S, g, msg) == \E i \in DOMAIN S.log[g] : S.log[g][i].msg = msg

\* The groups of U in which an add commit is pending that the DS never got:
\* what add_member_to_group leaves when the send of its commit fails.
UnsentAdds(U, S) ==
    { g \in DOMAIN U.groups :
        /\ U.groups[g].mls_group.pending # << >>
        /\ U.groups[g].mls_group.pending[1].d.kind = "add"
        /\ ~OnLog(S, g, U.groups[g].mls_group.pending[1]) }

\* The step of the model for an update with result r.  (arg records that the
\* call repeats the previous one: the same user, the same events dispatched;
\* text, that the user came to the call with an unsent add pending.)
UpdateApply(u, r, fail, io) ==
    /\ r.n <= MaxKp
    /\ fail = "kp" => r.n > fresh.kp[u]
    /\ Apply(u, [r.out EXCEPT !.last.arg =
                     IF /\ last.op = "update" /\ last.u = u /\ last.res = "ok"
                        /\ last.ev = r.out.last.ev
                     THEN "replay" ELSE "",
                               !.last.text =
                     IF UnsentAdds(mem[u], ds) # {} THEN "unsent add" ELSE ""])
    /\ fresh' = [fresh EXCEPT
           !.kp[u] = r.n,
           !.faults = IF Faulty(fail, io) THEN @ + 1 ELSE @]

Update(u, order, fail, io) ==
    /\ mem[u].live
    /\ fail # "none" => io = "ok"
    /\ Faulty(fail, io) => fresh.faults < MaxFaults
    /\ UpdateApply(u, UpdateOp(mem[u], disk[u], ds, u, order, fresh.kp[u],
                               fail, io), fail, io)
    /\ UNCHANGED <<air, net, setup, adapter>>

(***************************************************************************)
(* User::join_group_externally and join_by_external_commit                 *)
(***************************************************************************)
ExternalFailPoints == {"none", "get", "commit", "gi"}

\* MlsGroup::join_by_external_commit: the joiner's state on the epoch the
\* group info describes, with the external commit pending.
MlsFromGroupInfo(gi, commit) ==
    [ gid |-> gi.gid, lin |-> gi.lin, members |-> gi.members,
      pending |-> << commit >>, active |-> TRUE, gen |-> 0, seen |-> {} ]

\* The identity cell stays borrowed from the top of the block (the reference
\* to credential_with_key keeps the Ref alive), so the mutable borrow taken
\* by create_kp_and_publish -> add_key_package aborts the process.
IdentityBorrowLive == TRUE

JoinByExternalCommitOp(U, D, S, L, u, gi, fail) ==
    LET g == gi.gid
        d == Descr("external", u, u, NoKp)
        commit == Msg("commit", "Public", g, gi.lin, d, 0, "", {}, NoKp)
        m0 == MlsFromGroupInfo(gi, commit)
        U1 == [U EXCEPT !.groups = MapPut(@, g, Group(g, m0, ConversationDefault))]
        L1 == [L EXCEPT !.trace = Append(@, "join_by_external_commit")]
        S2 == DsPost(S, g, commit, g, Epoch(m0))
        L2 == [L1 EXCEPT !.trace = Append(@, "send_commit")]
        S3 == DsPublishGroupInfo(S2, GroupInfoAfter(m0, d))
        L3 == [L2 EXCEPT !.trace = Append(@, "publish_group_info")]
        U4 == SetMls(U1, g, MergePendingCommit(m0))
        L4 == [L3 EXCEPT !.trace = Append(@, "merge_pending_commit")]
        result == IF g \in DOMAIN U.groups THEN "err" ELSE "ok"
    IN IF fail = "commit" THEN Outcome(U1, D, S, [L1 EXCEPT !.res = "err"])
       ELSE IF fail = "gi" THEN Outcome(U1, D, S2, [L2 EXCEPT !.res = "err"])
       ELSE IF IdentityBorrowLive THEN Panicked(D, S3, L4)
       ELSE IF result = "err" THEN Outcome(U4, D, S3, [L4 EXCEPT !.res = "err"])
       ELSE Finish(U4, D, S3, L4, "ok")

JoinGroupExternallyOp(U, D, S, u, g, fail) ==
    LET L == Last("join_group_externally", u, g, "ok", << >>)
    IN IF fail = "get" \/ DsGetGroupInfo(S, g) = << >>
       THEN Outcome(U, D, S, [L EXCEPT !.res = "err"])
       ELSE JoinByExternalCommitOp(U, D, S, L, u, DsGetGroupInfo(S, g)[1], fail)

JoinGroupExternally(u, g, fail) ==
    /\ mem[u].live
    /\ DsRoom(ds, g, 1)
    /\ DsGetGroupInfo(ds, g) # << >> =>
           Len(DsGetGroupInfo(ds, g)[1].lin) - 1 < MaxEpoch
    /\ Budget(fail, "ok")
    /\ Apply(u, JoinGroupExternallyOp(mem[u], disk[u], ds, u, g, fail))
    /\ UNCHANGED <<air, net, setup, adapter>>

(***************************************************************************)
(* User::send_msg and User::read_msg                                       *)
(***************************************************************************)
\* MlsGroup::create_message: needs an active group.
CreateMessageOk(m) == m.active

\* A variant that logs the sent message without its fingerprint.
SendMsgOpNoFingerprint(U, D, S, u, text, g, io) ==
    LET L == [Last("send_msg", u, g, "ok", << >>) EXCEPT !.text = text]
        m == U.groups[g].mls_group
        msg_to_ds == Hex(AppMsg(m, u, text))
        c == ConversationAdd(U.groups[g].conversation,
                             ConversationMessage(text, u), << >>)
        U1 == [U EXCEPT !.groups[g].mls_group.gen = @ + 1,
                        !.groups[g].conversation = c]
    IN IF g \notin DOMAIN U.groups THEN Outcome(U, D, S, [L EXCEPT !.res = "err"])
       ELSE IF ~CreateMessageOk(m) THEN Outcome(U, D, S, [L EXCEPT !.res = "err"])
       ELSE Finish(U1, D, S,
                   [L EXCEPT !.hex = << msg_to_ds >>,
                             !.trace = Append(@, "create_message")], io)

SendMsgOp(U, D, S, u, text, g, io) ==
    LET L == [Last("send_msg", u, g, "ok", << >>) EXCEPT !.text = text]
        m == U.groups[g].mls_group
        msg == AppMsg(m, u, text)
        msg_to_ds == Hex(msg)
        c == ConversationAdd(U.groups[g].conversation,
                             ConversationMessage(text, u), << msg_to_ds >>)
        U1 == [U EXCEPT !.groups[g].mls_group.gen = @ + 1,
                        !.groups[g].conversation = c]
    IN IF g \notin DOMAIN U.groups THEN Outcome(U, D, S, [L EXCEPT !.res = "err"])
       ELSE IF ~CreateMessageOk(m) THEN Outcome(U, D, S, [L EXCEPT !.res = "err"])
       ELSE Finish(U1, D, S,
                   [L EXCEPT !.hex = << msg_to_ds >>,
                             !.trace = Append(@, "create_message")], io)

\* The ciphertext send_msg returned.
MsgToDs(o) == o.last.hex[1]

SendMsg(u, text, g, io) ==
    /\ mem[u].live
    /\ Cardinality(air) < MaxAir
    /\ g \in DOMAIN mem[u].groups =>
           /\ mem[u].groups[g].mls_group.gen < MaxGen
           /\ Len(mem[u].groups[g].conversation.messages) < MaxConv
    /\ Budget("none", io)
    /\ LET o == SendMsgOp(mem[u], disk[u], ds, u, text, g, io)
       IN /\ Apply(u, o)
          /\ air' = IF o.last.res = "ok" THEN air \cup { MsgToDs(o) } ELSE air
    /\ UNCHANGED <<net, setup, adapter>>

\* A variant that treats every processed message as a commit: the group
\* moves to a next epoch on every processed message.
ReadMsgOpMerging(U, D, S, u, content, sender, g) ==
    LET L == [Last("read_msg", u, g, "ok", << >>)
                 EXCEPT !.hex = << content >>, !.arg = sender]
        c == U.groups[g].conversation
        hit == GetCachedMessage(c, content)
        m == U.groups[g].mls_group
        msg == Unhex(content)
        L1 == [L EXCEPT !.trace = Append(@, "process_message")]
        U1 == [U EXCEPT !.groups[g].mls_group = NextEpoch(m, msg.d, TRUE),
                        !.groups[g].conversation =
                            ConversationAdd(c, ConversationMessage(msg.text, sender),
                                            << content >>)]
    IN IF g \notin DOMAIN U.groups THEN Outcome(U, D, S, [L EXCEPT !.res = "err"])
       ELSE IF hit # << >> THEN Outcome(U, D, S, [L EXCEPT !.text = hit[1]])
       ELSE IF ~ProcessMessageOk(m, u, msg)
            THEN Outcome(U, D, S, [L1 EXCEPT !.res = "err"])
       ELSE Outcome(U1, D, S, [L1 EXCEPT !.text = msg.text])

\* read_msg: the cached plaintext of the fingerprint when there is one; else
\* the message is processed, and only an application message is kept.
ReadMsgOp(U, D, S, u, content, sender, g) ==
    LET L == [Last("read_msg", u, g, "ok", << >>)
                 EXCEPT !.hex = << content >>, !.arg = sender]
        c == U.groups[g].conversation
        hit == GetCachedMessage(c, content)
        m == U.groups[g].mls_group
        msg == Unhex(content)
        L1 == [L EXCEPT !.trace = Append(@, "process_message")]
        U1 == [U EXCEPT !.groups[g].mls_group = AfterAppMsg(m, msg),
                        !.groups[g].conversation =
                            ConversationAdd(c, ConversationMessage(msg.text, sender),
                                            << content >>)]
    IN IF g \notin DOMAIN U.groups THEN Outcome(U, D, S, [L EXCEPT !.res = "err"])
       ELSE IF hit # << >> THEN Outcome(U, D, S, [L EXCEPT !.text = hit[1]])
       ELSE IF ~ProcessMessageOk(m, u, msg)
            THEN Outcome(U, D, S, [L1 EXCEPT !.res = "err"])
       ELSE IF msg.type # "app" THEN Outcome(U, D, S, [L1 EXCEPT !.res = "err"])
       ELSE Outcome(U1, D, S, [L1 EXCEPT !.text = msg.text])

\* The host names the user the ciphertext came from.
SenderOf(content) == Unhex(content).d.by

\* What a host can pass to read_msg: the hex of any group message it got, an
\* application message or a commit.
Readable(u) == { Hex(msg) : msg \in { m \in Inbox(u) : m.wire # "Welcome" } }

ReadMsg(u, content, sender, g) ==
    /\ mem[u].live
    /\ content \in Readable(u)
    /\ (g \in DOMAIN mem[u].groups
          /\ GetCachedMessage(mem[u].groups[g].conversation, content) = << >>) =>
           Len(mem[u].groups[g].conversation.messages) < MaxConv
    /\ Apply(u, ReadMsgOp(mem[u], disk[u], ds, u, content, sender, g))
    /\ UNCHANGED <<air, fresh, net, setup, adapter>>

(***************************************************************************)
(* NetworkingConfig (service/networking.rs).                               *)
(***************************************************************************)
\* The strings a host supplies; an Option is << >> (None) or << v >> (Some).
NetValues == {"v1", "v2"}

Opt(S) == { << >> } \cup { << v >> : v \in S }

\* SINGLETON_CONFIG: four empty strings.
NetworkingConfigInit ==
    [ base_url |-> "", pubkey |-> "", did_key |-> "", private_key |-> "" ]

SetBaseUrl(c, value) == [c EXCEPT !.base_url = value]

SetPubkey(c, value) == [c EXCEPT !.pubkey = value]

SetDidKey(c, value) == [c EXCEPT !.did_key = value]

SetPrivateKey(c, value) == [c EXCEPT !.private_key = value]

\* A variant that clears a field whose argument is absent.
NetworkingConfigSetupClearing(c, base_url, pubkey, did_key, private_key) ==
    [ base_url |-> IF base_url # << >> THEN base_url[1] ELSE "",
      pubkey |-> IF pubkey # << >> THEN pubkey[1] ELSE "",
      did_key |-> IF did_key # << >> THEN did_key[1] ELSE "",
      private_key |-> IF private_key # << >> THEN private_key[1] ELSE "" ]

\* NetworkingConfig::setup: four tests, one after the other.
NetworkingConfigSetup(c, base_url, pubkey, did_key, private_key) ==
    LET c1 == IF base_url # << >> THEN SetBaseUrl(c, base_url[1]) ELSE c
        c2 == IF pubkey # << >> THEN SetPubkey(c1, pubkey[1]) ELSE c1
        c3 == IF did_key # << >> THEN SetDidKey(c2, did_key[1]) ELSE c2
        c4 == IF private_key # << >> THEN SetPrivateKey(c3, private_key[1]) ELSE c3
    IN c4

\* setup_networking_config (lib.rs), called by the host at any time.
SetupNetworkingConfig(base_url, pubkey, did_key, private_key) ==
    /\ net' = NetworkingConfigSetup(net, base_url, pubkey, did_key, private_key)
    /\ last' = [Last("setup_networking_config", "", "", "ok", << >>)
                   EXCEPT !.ev = << [ base_url |-> base_url, pubkey |-> pubkey,
                                      did_key |-> did_key,
                                      private_key |-> private_key ] >>]
    /\ UNCHANGED <<mem, disk, ds, air, fresh, setup, adapter>>

(***************************************************************************)
(* NetworkingConfig::setup called from several tasks.  Each field has its  *)
(* own Mutex; a setter locks it, assigns and unlocks at the end of its one *)
(* statement.                                                              *)
(***************************************************************************)
Tasks == {"t1", "t2"}

\* The fields in the order setup goes through them.
Fields == << "base_url", "pubkey", "did_key", "private_key" >>

FieldNames == { Fields[i] : i \in DOMAIN Fields }

\* Where a call that has returned stands.
Returned == Len(Fields) + 1

NoArgs == [ f \in FieldNames |-> << >> ]

\* No call made, every mutex free.  (before: the configuration when the first
\* of the calls began, kept for reference.)
SetupInit ==
    [ call |-> [ t \in Tasks |-> [ at |-> 0, held |-> FALSE, args |-> NoArgs ] ],
      lock |-> [ f \in FieldNames |-> "" ],
      before |-> NetworkingConfigInit ]

\* The next `if let Some(..)` of setup that matches, from the i-th on.
NextAt(args, i) ==
    IF \E j \in i..Len(Fields) : args[Fields[j]] # << >>
    THEN CHOOSE j \in i..Len(Fields) :
             /\ args[Fields[j]] # << >>
             /\ \A k \in i..(j - 1) : args[Fields[k]] = << >>
    ELSE Returned

\* The assignment a setter makes while it holds the field's lock.
SetField(c, f, value) ==
    CASE f = "base_url" -> SetBaseUrl(c, value)
      [] f = "pubkey" -> SetPubkey(c, value)
      [] f = "did_key" -> SetDidKey(c, value)
      [] f = "private_key" -> SetPrivateKey(c, value)

\* Mutex::lock succeeds when no task holds the lock.
MutexFree(lock, f) == lock[f] = ""

MutexLock(lock, f, t) == [lock EXCEPT ![f] = t]

\* A variant in which the guard outlives the setter.
MutexUnlockLeaked(lock, f) == lock

\* The guard is dropped at the end of the setter's statement.
MutexUnlock(lock, f) == [lock EXCEPT ![f] = ""]

\* A task calls setup.
SetupBegin(t, args) ==
    /\ setup.call[t].at = 0
    /\ setup' = [setup EXCEPT
           !.call[t] = [ at |-> NextAt(args, 1), held |-> FALSE, args |-> args ],
           !.before = IF \A s \in Tasks : setup.call[s].at = 0 THEN net ELSE @]
    /\ last' = [Last("setup", t, "", "ok", << >>) EXCEPT !.ev = << args >>]
    /\ UNCHANGED <<mem, disk, ds, air, fresh, net, adapter>>

\* A setter takes the lock of its field.
SetupLock(t) ==
    LET c == setup.call[t]
    IN /\ c.at \in DOMAIN Fields
       /\ ~c.held
       /\ MutexFree(setup.lock, Fields[c.at])
       /\ setup' = [setup EXCEPT !.call[t].held = TRUE,
                                 !.lock = MutexLock(@, Fields[c.at], t)]
       /\ UNCHANGED <<mem, disk, ds, air, fresh, net, adapter, last>>

\* A setter assigns and lets the lock go; the call moves on to its next
\* present argument, or returns.
SetupStore(t) ==
    LET c == setup.call[t]
    IN /\ c.at \in DOMAIN Fields
       /\ c.held
       /\ net' = SetField(net, Fields[c.at], c.args[Fields[c.at]][1])
       /\ setup' = [setup EXCEPT
              !.call[t].held = FALSE,
              !.call[t].at = NextAt(c.args, c.at + 1),
              !.lock = MutexUnlock(@, Fields[c.at])]
       /\ UNCHANGED <<mem, disk, ds, air, fresh, adapter, last>>

\* The value a task supplies, and the value the host set before.
TaskValue(t) == IF t = "t1" THEN "v1" ELSE "v2"

HostValue == "v0"

SetupArgs(v) == [ FieldNames -> Opt({v}) ]

(***************************************************************************)
(* The request signer of the adapter (service/backend.rs).                 *)
(***************************************************************************)
\* Bounds of the signer's model.
MaxClock == 2      \* the last millisecond the clock reaches
MaxSigned == 2     \* sign_request calls kept for comparison

\* clock: "now" in milliseconds; signed: the sign_request calls made so far,
\* each with its arguments and what it returned; sent: the request the
\* adapter built last, << >> before the first.
AdapterInit == [ clock |-> 1, signed |-> {}, sent |-> << >> ]

\* Private key strings: the configured ones (64 hex digits), the empty string
\* of a NetworkingConfig that was never set up, and one that is no hex.
PrivateKeys == NetValues \cup {"", "zz"}

\* hex::decode: whether the string is hex, and how many bytes it gives.
HexDecode(s) ==
    [ ok |-> s # "zz", len |-> IF s \in NetValues THEN 32 ELSE 0 ]

\* Sha256::digest as lowercase hex: a function of the content alone.
Sha256Hex(content) == [ sha256 |-> content ]

\* ed25519_sign: the key is decoded from hex and must be 32 bytes long; the
\* signature (RFC 8032, no randomness) is a function of key and content.
Ed25519Sign(private_key, sign_content) ==
    IF ~HexDecode(private_key).ok \/ HexDecode(private_key).len # 32
    THEN [ ok |-> FALSE, sig |-> << >> ]
    ELSE [ ok |-> TRUE,
           sig |-> << [ key |-> private_key, over |-> sign_content ] >> ]

\* Backend::get_payload_hash: format!("{}{}{}", user_id, body, timestamp).
GetPayloadHash(user_id, body, timestamp) ==
    Sha256Hex(user_id \o body \o ToString(timestamp))

\* What sign_request returns: (signature, payload_hash, timestamp), or the
\* process aborts on expect("Error signing").
Signed(res, signature, payload_hash, timestamp) ==
    [ res |-> res, signature |-> signature, payload_hash |-> payload_hash,
      timestamp |-> timestamp ]

\* A variant that reads the clock although a timestamp was supplied.
SignRequestNow(user_id, body, private_key, timestamp, now) ==
    IF ~Ed25519Sign(private_key, GetPayloadHash(user_id, body, now)).ok
    THEN Signed("panic", << >>, << >>, 0)
    ELSE Signed("ok",
                Ed25519Sign(private_key, GetPayloadHash(user_id, body, now)).sig,
                << GetPayloadHash(user_id, body, now) >>, now)

\* Backend::sign_request; timestamp: << >> (None) or << t >>; now: the clock.
SignRequestAt(user_id, body, private_key, ts) ==
    IF ~Ed25519Sign(private_key, GetPayloadHash(user_id, body, ts)).ok
    THEN Signed("panic", << >>, << >>, 0)
    ELSE Signed("ok",
                Ed25519Sign(private_key, GetPayloadHash(user_id, body, ts)).sig,
                << GetPayloadHash(user_id, body, ts) >>, ts)

SignRequest(user_id, body, private_key, timestamp, now) ==
    SignRequestAt(user_id, body, private_key,
                  IF timestamp # << >> THEN timestamp[1] ELSE now)

\* Time passes.
Tick ==
    /\ adapter.clock < MaxClock
    /\ adapter' = [adapter EXCEPT !.clock = @ + 1]
    /\ UNCHANGED <<mem, disk, ds, air, fresh, net, setup, last>>

\* The bodies a caller signs.
Bodies == {"", "[\"g1\"]"}

\* A call of sign_request; the call, the time it was made at and its result
\* are kept.
SignRequestCall(user_id, body, private_key, timestamp) ==
    /\ Cardinality(adapter.signed) < MaxSigned
    /\ LET out == SignRequest(user_id, body, private_key, timestamp, adapter.clock)
       IN /\ adapter' = [adapter EXCEPT !.signed = @ \cup
                 { [ user_id |-> user_id, body |-> body,
                     private_key |-> private_key, timestamp |-> timestamp,
                     at |-> adapter.clock, out |-> out ] }]
          /\ last' = Last("sign_request", user_id, "", out.res, << >>)
    /\ UNCHANGED <<mem, disk, ds, air, fresh, net, setup>>

\* What an endpoint of the adapter hands to _post: the path, the parameters,
\* and (for reference) the body it signed; res = "panic" when signing aborted
\* before anything was sent.
Request(res, path, body, params) ==
    [ res |-> res, path |-> path, body |-> body, params |-> params ]

\* Serialized arguments of the endpoints: a key-package map as JSON, a list
\* of group ids as JSON, an MLS message as base64.
KeyPackagesJson == {"{}", "{\"a2V5\":\"cGtn\"}"}

GroupsJson == {"[\"g1\"]"}

MlsMsgBase64 == {"bWxz"}

\* Backend::register_key_packages
RegisterKeyPackagesRequest(user_id, key_packages, private_key, now) ==
    LET s == SignRequest(user_id, key_packages, private_key, << >>, now)
    IN IF s.res # "ok" THEN Request("panic", "", "", [ timestamp |-> 0 ])
       ELSE Request("ok", "/api/user/key_package/", key_packages,
                    [ userid |-> user_id, timestamp |-> s.timestamp,
                      key_packages |-> key_packages,
                      payload_hash |-> s.payload_hash[1],
                      web3mq_user_signature |-> s.signature[1] ])

\* Backend::consume_key_package: the target and the time, nothing else.
ConsumeKeyPackageRequest(user_id, now) ==
    Request("ok", "/api/user/get_key_package/", "",
            [ target_userid |-> user_id, timestamp |-> now ])

\* Backend::send_welcome and Backend::send_msg (the commit of a group).
SendMessageRequest(sender, receiver, group_id, mls_msg, private_key, now) ==
    LET body == group_id \o receiver \o mls_msg
        s == SignRequest(sender, body, private_key, << >>, now)
    IN IF s.res # "ok" THEN Request("panic", "", "", [ timestamp |-> 0 ])
       ELSE Request("ok", "/api/group/mls_state/", body,
                    [ userid |-> sender, timestamp |-> s.timestamp,
                      web3mq_user_signature |-> s.signature[1],
                      payload_hash |-> s.payload_hash[1],
                      mls_msg |-> mls_msg, groupid |-> group_id,
                      recipients_topicid |-> receiver ])

\* Backend::recv_msgs (the request it sends)
RecvMsgsRequest(user_id, groups, private_key, now) ==
    LET s == SignRequest(user_id, groups, private_key, << >>, now)
    IN IF s.res # "ok" THEN Request("panic", "", "", [ timestamp |-> 0 ])
       ELSE Request("ok", "/api/group/get_mls_state/", groups,
                    [ userid |-> user_id, timestamp |-> s.timestamp,
                      web3mq_user_signature |-> s.signature[1],
                      payload_hash |-> s.payload_hash[1],
                      groupid_list |-> groups, timestamp_gte |-> 0 ])

\* The adapter posts a request, unless signing aborted.
Post(op, u, r) ==
    /\ adapter' = [adapter EXCEPT !.sent = IF r.res = "ok" THEN << r >> ELSE @]
    /\ last' = Last(op, u, "", r.res, << >>)
    /\ UNCHANGED <<mem, disk, ds, air, fresh, net, setup>>

RegisterKeyPackages(u, key_packages) ==
    Post("register_key_packages", u,
         RegisterKeyPackagesRequest(u, key_packages, net.private_key, adapter.clock))

ConsumeKeyPackage(u, target) ==
    Post("consume_key_package", u, ConsumeKeyPackageRequest(target, adapter.clock))

SendWelcome(u, receiver, g, mls_msg) ==
    Post("send_welcome", u,
         SendMessageRequest(u, receiver, g, mls_msg, net.private_key, adapter.clock))

SendCommit(u, g, mls_msg) ==
    Post("send_msg", u,
         SendMessageRequest(u, g, g, mls_msg, net.private_key, adapter.clock))

RecvMsgs(u, groups) ==
    Post("recv_msgs", u,
         RecvMsgsRequest(u, groups, net.private_key, adapter.clock))

(***************************************************************************)
(* PersistentKeyStore::load, by build target.                              *)
(***************************************************************************)
Targets == {"native", "wasm"}

\* The base64 alphabet a build's keystore blob is written in.
KsAlphabet(target) == IF target = "native" THEN "standard" ELSE "url_safe"

\* The entries of a decoded blob are inserted into the map the store holds.
KsInsertAll(values, loaded) ==
    [ grp |-> [ g \in (DOMAIN values.grp) \cup (DOMAIN loaded.grp) |->
                  IF g \in DOMAIN loaded.grp THEN loaded.grp[g] ELSE values.grp[g] ],
      kp |-> values.kp \cup loaded.kp,
      sig |-> values.sig \cup loaded.sig ]

\* load(user_id) on a store holding `values`; file: << >> (nothing was
\* persisted) or << blob >>.  Native: File::open fails on a missing file and
\* the error is returned.  Wasm: a missing record is None and load returns
\* Ok(()) without touching the map.
PersistentKeyStoreLoad(values, file, target) ==
    IF file = << >>
    THEN [ res |-> IF target = "native" THEN "err" ELSE "ok", values |-> values ]
    ELSE IF ~B64DecodeOk(KsAlphabet(target), file[1])
         THEN [ res |-> "panic", values |-> values ]
    ELSE [ res |-> "ok",
           values |-> KsInsertAll(values, B64Decode(KsAlphabet(target), file[1])) ]

\* OpenMlsRustPersistentCrypto::load_keystore on a fresh provider, as load
\* calls it.  (The files of the model are written by the native build; a
\* wasm build finds its own store, which holds nothing.)
LoadKeystore(u, target) ==
    /\ target = "wasm" => disk[u].ks = << >>
    /\ LET r == PersistentKeyStoreLoad(KeyStoreDefault, disk[u].ks, target)
       IN last' = [Last("load_keystore", u, "", r.res, << >>)
                      EXCEPT !.arg = target, !.ev = << r.values >>]
    /\ UNCHANGED <<mem, disk, ds, air, fresh, net, setup, adapter>>

Init ==
    /\ mem = [u \in Users |-> NoUser]
    /\ disk = [u \in Users |-> NoDisk]
    /\ ds = [ kps |-> [u \in Users |-> {}], used |-> {},
              log |-> [g \in Groups |-> << >>],
              gi |-> [g \in Groups |-> << >>] ]
    /\ air = {}
    /\ fresh = [ sig |-> [u \in Users |-> 0], kp |-> [u \in Users |-> 0],
                 faults |-> 0 ]
    /\ net = NetworkingConfigInit
    /\ setup = SetupInit
    /\ adapter = AdapterInit
    /\ last = Last("init", "", "", "ok", << >>)

Next ==
    \/ \E u \in Users, fail \in {"none", "register"}, io \in IoOutcomes :
            InitialUser(u, fail, io)
    \/ \E u \in Users, io \in IoOutcomes : SaveUser(u, io)
    \/ \E u \in Users : LoadUser(u)
    \/ \E u \in Creators, g \in Groups, io \in IoOutcomes : CreateGroup(u, g, io)
    \/ \E u \in Invitees, ok \in BOOLEAN : CreateKp(u, ok)
    \/ \E u \in Users, member \in Users, g \in Groups,
          fail \in AddFailPoints, io \in IoOutcomes :
            \E kp \in Offered(ds, member) :
                AddMemberToGroup(u, member, g, kp, fail, io)
    \/ \E u \in Users, name \in Users, g \in Groups,
          fail \in RemoveFailPoints, io \in IoOutcomes :
            Remove(u, name, g, fail, io)
    \/ \E u \in Users, fail \in {"none", "kp"}, io \in IoOutcomes :
            \E msg \in Inbox(u) : HandleMlsGroupEvent(u, msg, fail, io)
    \/ \E u \in Users, g \in Groups, fail \in ExternalFailPoints :
            JoinGroupExternally(u, g, fail)

Spec == Init /\ [][Next]_vars

\* Pulling: the operations of Spec, and update.
NextUpd ==
    \/ Next
    \/ \E u \in Users, order \in Orders, fail \in UpdateFailPoints,
          io \in IoOutcomes :
            Update(u, order, fail, io)

SpecUpd == Init /\ [][NextUpd]_vars

\* Configuration: the calls that set the NetworkingConfig up.
NextNet ==
    \E base_url \in Opt(NetValues), pubkey \in Opt(NetValues),
       did_key \in Opt(NetValues), private_key \in Opt(NetValues) :
        SetupNetworkingConfig(base_url, pubkey, did_key, private_key)

SpecNet == Init /\ [][NextNet]_vars

\* Configuration by concurrent tasks: the host sets values, then each task
\* calls setup once; the steps of the calls interleave.
NoSetupCall == \A t \in Tasks : setup.call[t].at = 0

NextCfg ==
    \/ \E a \in SetupArgs(HostValue) :
            /\ NoSetupCall
            /\ SetupNetworkingConfig(a.base_url, a.pubkey, a.did_key, a.private_key)
    \/ \E t \in Tasks : \E args \in SetupArgs(TaskValue(t)) : SetupBegin(t, args)
    \/ \E t \in Tasks : SetupLock(t)
    \/ \E t \in Tasks : SetupStore(t)

\* Every task goes on taking steps: a lock is held for one assignment only,
\* and a task waiting for it gets it once it is free.
SpecCfg ==
    /\ Init
    /\ [][NextCfg]_vars
    /\ \A t \in Tasks : WF_vars(SetupLock(t) \/ SetupStore(t))

\* Storage: users and groups are made and saved, saves are interrupted, and
\* the keystore is loaded by either build.
NextSto ==
    \/ \E u \in Users, io \in IoOutcomes : InitialUser(u, "none", io)
    \/ \E u \in Users, io \in IoOutcomes : SaveUser(u, io)
    \/ \E u \in Users : LoadUser(u)
    \/ \E u \in Creators, g \in Groups, io \in IoOutcomes : CreateGroup(u, g, io)
    \/ \E u \in Invitees : CreateKp(u, TRUE)
    \/ \E u \in Users, target \in Targets : LoadKeystore(u, target)

SpecSto == Init /\ [][NextSto]_vars

\* Signing: sign_request is called while the clock runs and the configured
\* private key changes.
NextSig ==
    \/ Tick
    \/ \E private_key \in Opt(NetValues) :
            SetupNetworkingConfig(<< >>, << >>, << >>, private_key)
    \/ \E user_id \in Users, body \in Bodies, private_key \in PrivateKeys,
          timestamp \in Opt(1..MaxClock) :
            SignRequestCall(user_id, body, private_key, timestamp)

SpecSig == Init /\ [][NextSig]_vars

\* Requests: the endpoints of the adapter build and post their requests while
\* the clock runs and the private key is configured.
NextReq ==
    \/ Tick
    \/ \E private_key \in Opt(NetValues) :
            SetupNetworkingConfig(<< >>, << >>, << >>, private_key)
    \/ \E u \in Users, key_packages \in KeyPackagesJson :
            RegisterKeyPackages(u, key_packages)
    \/ \E u \in Users, target \in Users : ConsumeKeyPackage(u, target)
    \/ \E u \in Users, receiver \in Users, g \in Groups, mls_msg \in MlsMsgBase64 :
            SendWelcome(u, receiver, g, mls_msg)
    \/ \E u \in Users, g \in Groups, mls_msg \in MlsMsgBase64 :
            SendCommit(u, g, mls_msg)
    \/ \E u \in Users, groups \in GroupsJson : RecvMsgs(u, groups)

SpecReq == Init /\ [][NextReq]_vars

\* Messaging: the operations that build and change a group, without failed
\* requests, and send_msg and read_msg between them.
NextMsg ==
    \/ \E u \in Users : InitialUser(u, "none", "ok")
    \/ \E u \in Users : SaveUser(u, "ok")
    \/ \E u \in Users : LoadUser(u)
    \/ \E u \in Creators, g \in Groups : CreateGroup(u, g, "ok")
    \/ \E u \in Invitees : CreateKp(u, TRUE)
    \/ \E u \in Users, member \in Users, g \in Groups :
            \E kp \in Offered(ds, member) :
                AddMemberToGroup(u, member, g, kp, "none", "ok")
    \/ \E u \in Users, name \in Users, g \in Groups :
            Remove(u, name, g, "none", "ok")
    \/ \E u \in Users :
            \E msg \in Inbox(u) : HandleMlsGroupEvent(u, msg, "none", "ok")
    \/ \E u \in Users, text \in Texts, g \in Groups, io \in IoOutcomes :
            SendMsg(u, text, g, io)
    \/ \E u \in Users, g \in Groups :
            \E content \in Readable(u) :
                ReadMsg(u, content, SenderOf(content), g)

SpecMsg == Init /\ [][NextMsg]_vars

\* Key-package pools of more than one package: the host adds packages to a
\* pool that has some, and the Welcomes of the adds are handed in.
MaxPool == 2       \* key packages the host adds to one pool

CreateKpMore(u) ==
    /\ mem[u].live
    /\ fresh.kp[u] < MaxPool
    /\ LET r == CreateKpAndPublish(mem[u], ds, u, FreshKp(u), TRUE)
       IN Apply(u, Outcome(r.mem, disk[u], r.ds,
                   [Last("create_kp_and_publish", u, "", "ok", << >>)
                       EXCEPT !.published = r.published]))
    /\ fresh' = [fresh EXCEPT !.kp[u] = @ + 1]
    /\ UNCHANGED <<air, net, setup, adapter>>

HandleWelcome(u, msg, fail) ==
    /\ mem[u].live
    /\ msg \in Inbox(u)
    /\ msg.wire = "Welcome"
    /\ LET joins == NewFromWelcomeOk(mem[u], msg)
       IN /\ fresh.kp[u] <= MaxPool
          /\ fail = "kp" => joins
          /\ Faulty(fail, "ok") => fresh.faults < MaxFaults
          /\ Apply(u, HandleMlsGroupEventOp(mem[u], disk[u], ds, u, msg,
                                            FreshKp(u), fail, "ok"))
          /\ fresh' = [fresh EXCEPT
                 !.kp[u] = IF joins THEN @ + 1 ELSE @,
                 !.faults = IF Faulty(fail, "ok") THEN @ + 1 ELSE @]
    /\ UNCHANGED <<air, net, setup, adapter>>

NextPool ==
    \/ \E u \in Users : InitialUser(u, "none", "ok")
    \/ \E u \in Users : SaveUser(u, "ok")
    \/ \E u \in Users : LoadUser(u)
    \/ \E u \in Creators, g \in Groups : CreateGroup(u, g, "ok")
    \/ \E u \in Invitees : CreateKpMore(u)
    \/ \E u \in Users, member \in Users, g \in Groups :
            \E kp \in Offered(ds, member) :
                AddMemberToGroup(u, member, g, kp, "none", "ok")
    \/ \E u \in Users, name \in Users, g \in Groups :
            Remove(u, name, g, "none", "ok")
    \/ \E u \in Users, fail \in {"none", "kp"} :
            \E msg \in Inbox(u) : HandleWelcome(u, msg, fail)

SpecPool == Init /\ [][NextPool]_vars

\* Reconciliation: the operations on a group that lives one epoch longer and
\* whose log holds three entries more, so that a member can come to update with a
\* commit of another client on the log and a commit of its own unsent.
MaxEpochRec == 3
MaxLogRec == 6

DsRoomRec(g, n) == Len(ds.log[g]) + n <= MaxLogRec

AddMemberToGroupRec(u, member, g, kp, fail) ==
    /\ mem[u].live
    /\ kp \in Offered(ds, member)
    /\ DsRoomRec(g, 2)
    /\ g \in DOMAIN mem[u].groups =>
           Epoch(mem[u].groups[g].mls_group) < MaxEpochRec
    /\ Budget(fail, "ok")
    /\ Apply(u, AddMemberToGroupOp(mem[u], disk[u], ds, u, member, g, kp, fail,
                                   "ok"))
    /\ UNCHANGED <<air, net, setup, adapter>>

RemoveRec(u, name, g) ==
    /\ mem[u].live
    /\ DsRoomRec(g, 1)
    /\ g \in DOMAIN mem[u].groups =>
           Epoch(mem[u].groups[g].mls_group) < MaxEpochRec
    /\ Budget("none", "ok")
    /\ Apply(u, RemoveOp(mem[u], disk[u], ds, u, name, g, "none", "ok"))
    /\ UNCHANGED <<air, net, setup, adapter>>

JoinGroupExternallyRec(u, g) ==
    /\ mem[u].live
    /\ DsRoomRec(g, 1)
    /\ DsGetGroupInfo(ds, g) # << >> =>
           Len(DsGetGroupInfo(ds, g)[1].lin) - 1 < MaxEpochRec
    /\ Budget("none", "ok")
    /\ Apply(u, JoinGroupExternallyOp(mem[u], disk[u], ds, u, g, "none"))
    /\ UNCHANGED <<air, net, setup, adapter>>

NextRec ==
    \/ \E u \in Users : InitialUser(u, "none", "ok")
    \/ \E u \in Users : LoadUser(u)
    \/ \E u \in Creators, g \in Groups : CreateGroup(u, g, "ok")
    \/ \E u \in Invitees : CreateKpMore(u)
    \/ \E u \in Users, member \in Users, g \in Groups,
          fail \in {"none", "commit"} :
            \E kp \in Offered(ds, member) :
                AddMemberToGroupRec(u, member, g, kp, fail)
    \/ \E u \in Users, name \in Users, g \in Groups : RemoveRec(u, name, g)
    \/ \E u \in Invitees, g \in Groups : JoinGroupExternallyRec(u, g)
    \/ \E u \in Users, order \in Orders : Update(u, order, "none", "ok")

SpecRec == Init /\ [][NextRec]_vars

\* Reading across a re-invitation: the creator adds, sends, removes and adds
\* again; the invitee joins by the Welcomes and reads.
NextCache ==
    \/ \E u \in Users : InitialUser(u, "none", "ok")
    \/ \E u \in Users : LoadUser(u)
    \/ \E u \in Users : SaveUser(u, "ok")
    \/ \E u \in Creators, g \in Groups : CreateGroup(u, g, "ok")
    \/ \E u \in Invitees : CreateKpMore(u)
    \/ \E u \in Creators, member \in Invitees, g \in Groups :
            \E kp \in Offered(ds, member) :
                AddMemberToGroupRec(u, member, g, kp, "none")
    \/ \E u \in Creators, name \in Invitees, g \in Groups : RemoveRec(u, name, g)
    \/ \E u \in Creators, g \in Groups : SendMsg(u, "ping", g, "ok")
    \/ \E u \in Invitees : \E msg \in Inbox(u) : HandleWelcome(u, msg, "none")
    \/ \E u \in Invitees, g \in Groups :
            \E content \in Readable(u) : ReadMsg(u, content, SenderOf(content), g)

SpecCache == Init /\ [][NextCache]_vars

\* Inbound messages that are no commits: a group is built, an external join
\* fails at the send of its commit, members send application messages, other
\* clients send proposals, and the host hands all of them to
\* handle_mls_group_event.
NextIn ==
    \/ \E u \in Users : InitialUser(u, "none", "ok")
    \/ \E u \in Creators, g \in Groups : CreateGroup(u, g, "ok")
    \/ \E u \in Invitees : CreateKp(u, TRUE)
    \/ \E u \in Users, member \in Users, g \in Groups :
            \E kp \in Offered(ds, member) :
                AddMemberToGroup(u, member, g, kp, "none", "ok")
    \/ \E u \in Users :
            \E msg \in Inbox(u) : HandleMlsGroupEvent(u, msg, "none", "ok")
    \/ \E u \in Users, g \in Groups : SendMsg(u, "ping", g, "ok")
    \/ \E u \in Users :
            \E msg \in Proposals(u) : HandleProposal(u, msg, "ok")
    \/ \E u \in Invitees, g \in Groups : JoinGroupExternally(u, g, "commit")

SpecIn == Init /\ [][NextIn]_vars

(***************************************************************************)
(* Properties.                                                             *)
(***************************************************************************)
\* Where an event first occurs in a trace (0: nowhere).
Pos(tr, e) ==
    IF \E i \in DOMAIN tr : tr[i] = e
    THEN CHOOSE i \in DOMAIN tr : tr[i] = e /\ \A j \in 1..(i - 1) : tr[j] # e
    ELSE 0

Has(tr, e) == Pos(tr, e) > 0

Before(tr, a, b) == Has(tr, a) /\ Pos(tr, a) < Pos(tr, b)

\* C1: in every execution of add_member_to_group, a local merge of the add
\* commit and a Welcome send are each preceded by the successful send of the
\* commit to the group.
C1_CommitSentFirst ==
    last.op = "add_member_to_group" =>
        /\ Has(last.trace, "merge_pending_commit") =>
               Before(last.trace, "send_commit", "merge_pending_commit")
        /\ Has(last.trace, "send_welcome") =>
               Before(last.trace, "send_commit", "send_welcome")

C1_Witness ==
    /\ last.op = "add_member_to_group" /\ last.res = "ok"
    /\ Has(last.trace, "merge_pending_commit")
    /\ Has(last.trace, "send_welcome")

\* C2: in add_member_to_group the group info add_members produced is published
\* to the DS before the Welcome is sent; no Welcome is in the DS while the
\* group info of its epoch is unpublished.
C2_GroupInfoBeforeWelcome ==
    last.op = "add_member_to_group" /\ Has(last.trace, "send_welcome") =>
        /\ Before(last.trace, "publish_group_info", "send_welcome")
        /\ LET log == ds.log[last.g]
               w == log[Len(log)].msg
           IN /\ w.wire = "Welcome"
              /\ DsGetGroupInfo(ds, last.g) # << >>
              /\ DsGetGroupInfo(ds, last.g)[1].lin = w.parent

C2_Witness ==
    /\ last.op = "add_member_to_group" /\ last.res = "ok"
    /\ Has(last.trace, "publish_group_info")
    /\ ds.log[last.g][Len(ds.log[last.g])].msg.wire = "Welcome"

\* C3: after handle_mls_group_event has processed a commit that removes the
\* user itself, arriving as a PrivateMessage or as a PublicMessage, the group
\* is in neither groups nor group_list.
C3_SelfRemovedDropsGroup ==
    (last.op = "handle_mls_group_event" /\ last.removed /\ mem[last.u].live) =>
        /\ last.g \notin DOMAIN mem[last.u].groups
        /\ last.g \notin mem[last.u].group_list

\* C4: a successful add_member_to_group(M, G) advances the caller's epoch on
\* G by exactly one and leaves M among the members of G.
C4_AddAdvancesEpoch ==
    [][ (last'.op = "add_member_to_group" /\ last'.res = "ok") =>
            LET u == last'.u
                g == last'.g
            IN /\ g \in DOMAIN mem[u].groups
               /\ g \in DOMAIN mem'[u].groups
               /\ Epoch(mem'[u].groups[g].mls_group)
                      = Epoch(mem[u].groups[g].mls_group) + 1
               /\ last'.arg \in mem'[u].groups[g].mls_group.members ]_vars

C4_Witness ==
    /\ last.op = "add_member_to_group" /\ last.res = "ok"
    /\ EpochOf(mem[last.u], last.g) = 1
    /\ last.arg \in mem[last.u].groups[last.g].mls_group.members

\* C5: after the invited user has processed the Welcome of an
\* add_member_to_group (MLS accepted it), the group is in its groups and its
\* epoch on the group is the inviter's epoch after the inviter's local merge
\* (the epoch the inviter was at when it sent the Welcome).
C5_JoinerAtInviterEpoch ==
    (/\ last.op = "handle_mls_group_event" /\ last.wire = "Welcome"
     /\ last.joined /\ mem[last.u].live) =>
        /\ last.g \in DOMAIN mem[last.u].groups
        /\ \A i \in DOMAIN ds.log[last.g] :
               ds.log[last.g][i].msg = last.ev[1] =>
                   Epoch(mem[last.u].groups[last.g].mls_group)
                       = ds.log[last.g][i].at

C5_Witness ==
    /\ last.op = "handle_mls_group_event" /\ last.wire = "Welcome"
    /\ last.joined /\ last.res = "ok"
    /\ EpochOf(mem[last.u], last.g) = 1
    /\ \E i \in DOMAIN ds.log[last.g] :
           ds.log[last.g][i].msg = last.ev[1] /\ ds.log[last.g][i].at = 1

\* C6: for every reachable User, save followed by load gives a User with the
\* same set of group ids and, for each group, the epoch it had at save time.
C6_SaveLoadRoundTrip ==
    \A u \in Users :
        mem[u].live =>
            LET sv == Save(mem[u], disk[u], "ok")
            IN /\ LoadResult(sv.disk) = "ok"
               /\ DOMAIN Load(sv.disk).groups = DOMAIN mem[u].groups
               /\ \A g \in DOMAIN mem[u].groups :
                      Epoch(Load(sv.disk).groups[g].mls_group)
                          = Epoch(mem[u].groups[g].mls_group)

\* A User that was loaded from what a save wrote, with a group past epoch 0.
C6_Witness ==
    /\ last.op = "load" /\ last.res = "ok"
    /\ \E g \in DOMAIN mem[last.u].groups : EpochOf(mem[last.u], g) >= 1
    /\ disk[last.u] = Save(mem[last.u], disk[last.u], "ok").disk

\* C7: at every point, every group id the persisted User blob lists has its
\* MLS group state in the persisted keystore blob.
C7_ListedGroupsInKeystore ==
    \A u \in Users :
        disk[u].user # << >> =>
            \A g \in disk[u].user[1].group_list :
                /\ disk[u].ks # << >>
                /\ KsReadGroup(KsDeserialize(disk[u].ks[1]), g) # << >>

\* C8: load returns an error or a User in which every listed group has an
\* entry in groups; it never aborts when the keystore lacks a listed group.
C8_LoadFailsAsAWhole ==
    last.op = "load" =>
        /\ last.res \in {"ok", "err"}
        /\ last.res = "ok" =>
               mem[last.u].group_list \subseteq DOMAIN mem[last.u].groups

\* C9: send_msg(plaintext, g) returning H, immediately followed by
\* read_msg(H, own user id, g) on the same User, returns exactly plaintext,
\* and MLS is not asked to process H.
C9_OwnMessageFromCache ==
    [][ (/\ last.op = "send_msg" /\ last.res = "ok"
         /\ last'.op = "read_msg"
         /\ last'.u = last.u /\ last'.g = last.g /\ last'.hex = last.hex
         /\ last'.arg = last.u) =>
            /\ last'.res = "ok"
            /\ last'.text = last.text
            /\ ~Has(last'.trace, "process_message") ]_vars

\* The sender has read back its own ciphertext.
C9_Witness ==
    /\ last.op = "read_msg" /\ last.res = "ok"
    /\ last.u = SenderOf(last.hex[1])
    /\ last.text = Unhex(last.hex[1]).text
    /\ last.trace = << >>

\* C10: when A and B are members of G at the same epoch (B holds the group
\* state A encrypted H for, and has not used up H's ratchet generation),
\* B's read_msg(H, A, G) returns the text A sent; A's send_msg and B's
\* read_msg change neither the epoch nor the membership of G they hold.
AtSameEpoch(m, self, msg) ==
    /\ m.active
    /\ msg.parent = m.lin
    /\ {msg.d.by, self} \subseteq m.members
    /\ <<msg.d.by, msg.gen>> \notin m.seen

SameEpochAndMembers(m1, m2) ==
    /\ Epoch(m1) = Epoch(m2)
    /\ m1.lin = m2.lin
    /\ m1.members = m2.members
    /\ m1.active = m2.active

C10_PeerReadsMessage ==
    [][ /\ (/\ last'.op = "read_msg"
            /\ last'.hex[1] \in air       \* H is what a send_msg returned
            /\ last'.g \in DOMAIN mem[last'.u].groups
            /\ SenderOf(last'.hex[1]) # last'.u
            /\ last'.arg = SenderOf(last'.hex[1])
            /\ AtSameEpoch(mem[last'.u].groups[last'.g].mls_group, last'.u,
                           Unhex(last'.hex[1]))) =>
               /\ last'.res = "ok"
               /\ last'.text = Unhex(last'.hex[1]).text
               /\ SameEpochAndMembers(mem'[last'.u].groups[last'.g].mls_group,
                                      mem[last'.u].groups[last'.g].mls_group)
        /\ (last'.op = "send_msg" /\ last'.res = "ok") =>
               /\ Unhex(last'.hex[1]).parent
                      = mem[last'.u].groups[last'.g].mls_group.lin
               /\ SameEpochAndMembers(mem'[last'.u].groups[last'.g].mls_group,
                                      mem[last'.u].groups[last'.g].mls_group)
      ]_vars

\* B has decrypted a message of A.
C10_Witness ==
    /\ last.op = "read_msg" /\ last.res = "ok"
    /\ SenderOf(last.hex[1]) # last.u
    /\ Has(last.trace, "process_message")
    /\ last.text = Unhex(last.hex[1]).text
    /\ <<SenderOf(last.hex[1]), Unhex(last.hex[1]).gen>>
           \in mem[last.u].groups[last.g].mls_group.seen

\* C11: create_group(g) for a group id g already in the user's groups returns
\* an error to the caller and leaves the User (the group g, the groups map,
\* group_list, the keystore) and the persisted blobs as they are.
C11_CreateExistingFails ==
    [][ (/\ last'.op = "create_group"
         /\ last'.g \in DOMAIN mem[last'.u].groups) =>
            /\ last'.res = "err"
            /\ mem'[last'.u] = mem[last'.u]
            /\ disk' = disk ]_vars

\* C12: with autosave enabled, a state-mutating operation that returned
\* success has saved at its tail: a load right afterwards gives the group
\* set and the epochs of the in-memory User.
C12_SuccessIsSaved ==
    (/\ last.op \in {"create_group", "add_member_to_group", "remove",
                     "send_msg", "join_group_externally", "update",
                     "handle_mls_group_event"}
     /\ last.res = "ok"
     /\ last.op = "handle_mls_group_event" =>
            (last.joined \/ Has(last.trace, "merge_staged_commit"))
     /\ mem[last.u].live /\ mem[last.u].autosave_enabled) =>
        /\ Has(last.trace, "save")
        /\ LoadResult(disk[last.u]) = "ok"
        /\ DOMAIN Load(disk[last.u]).groups = DOMAIN mem[last.u].groups
        /\ \A g \in DOMAIN mem[last.u].groups :
               Epoch(Load(disk[last.u]).groups[g].mls_group)
                   = Epoch(mem[last.u].groups[g].mls_group)

\* C13: a Private/Public message that MLS process_message refuses, or whose
\* group the user does not have, is dropped by handle_mls_group_event: the
\* groups map (so every group's epoch), group_list and the key-package pool
\* are as before the call.
C13_RejectedMessageDropped ==
    [][ (/\ last'.op = "handle_mls_group_event"
         /\ last'.wire \in {"Private", "Public"}
         /\ \/ last'.g \notin DOMAIN mem[last'.u].groups
            \/ ~ProcessMessageOk(mem[last'.u].groups[last'.g].mls_group,
                                 last'.u, last'.ev[1])) =>
            /\ mem'[last'.u].live
            /\ mem'[last'.u].groups = mem[last'.u].groups
            /\ mem'[last'.u].group_list = mem[last'.u].group_list
            /\ mem'[last'.u].identity.kp = mem[last'.u].identity.kp ]_vars

\* A member has been handed a commit of another epoch of a group it holds.
C13_Witness ==
    /\ last.op = "handle_mls_group_event" /\ last.wire = "Private"
    /\ last.res = "ok" /\ last.trace = << "process_message" >>
    /\ last.ev[1].type = "commit"
    /\ last.g \in DOMAIN mem[last.u].groups
    /\ last.ev[1].parent # mem[last.u].groups[last.g].mls_group.lin

\* C14: after a successful inbound transition (a message processed, a commit
\* merged, a self-removal applied, a Welcome joined) mls_sync_timestamp is
\* the current time and, with autosave enabled, save was invoked.
C14_InboundSetsTimestamp ==
    (/\ last.op = "handle_mls_group_event" /\ last.res = "ok"
     /\ last.joined \/ Has(last.trace, "merge_staged_commit")
     /\ mem[last.u].live) =>
        /\ Has(last.trace, "update_group_sync_timestamp")
        /\ mem[last.u].mls_sync_timestamp = Now
        /\ mem[last.u].autosave_enabled => Has(last.trace, "save")

\* C17: a DS request that fails inside an orchestrator operation makes the
\* operation return an error value; the operation neither succeeds nor
\* aborts the process.  (A step that uses up a fault and was not cut in its
\* save is a step with a failed DS request.)
C17_DsFailureIsError ==
    [][ (/\ fresh'.faults > fresh.faults
         /\ last'.op \in {"add_member_to_group", "remove", "update",
                          "join_group_externally", "handle_mls_group_event",
                          "initial_user", "create_kp_and_publish"}
         /\ last'.res # "cut") =>
            last'.res = "err" ]_vars

\* C18: initial_user(u) is create-if-missing.  When a persisted user u exists
\* it changes neither the persisted blobs nor the DS; when none exists and the
\* call succeeds, the new user is registered and persisted (it loads, with
\* the identity made); when register fails nothing is persisted and the call
\* returns an error.
C18_InitialUserCreateIfMissing ==
    [][ last'.op = "initial_user" =>
            LET u == last'.u
            IN /\ disk[u].user # << >> =>
                      /\ disk'[u] = disk[u]
                      /\ ds' = ds
               /\ (disk[u].user = << >> /\ last'.res = "ok") =>
                      /\ LoadResult(disk'[u]) = "ok"
                      /\ Load(disk'[u]).identity = mem'[u].identity
                      /\ ds' = Register(mem'[u], ds, u)
               /\ (disk[u].user = << >> /\ last'.res = "err") =>
                      disk'[u] = disk[u] ]_vars

\* C19: once a user is persisted, the signature key of its persisted identity
\* never changes, whatever operations, failed loads and interrupted saves
\* follow; a live User holds the key that is persisted.
C19_SignatureKeyStable ==
    [][ \A u \in Users :
            disk[u].user # << >> =>
                /\ disk'[u].user # << >>
                /\ disk'[u].user[1].identity.sig = disk[u].user[1].identity.sig
                /\ mem'[u].live =>
                       mem'[u].identity.sig = disk[u].user[1].identity.sig ]_vars

C20_SetupSetsPresentFields ==
    [][ last'.op = "setup_networking_config" =>
            \A f \in {"base_url", "pubkey", "did_key", "private_key"} :
                net'[f] = IF last'.ev[1][f] # << >> THEN last'.ev[1][f][1]
                          ELSE net[f] ]_vars

\* A setup with an absent and a present argument, on a configuration whose
\* field under the absent argument had been set before.
C20_Witness ==
    /\ last.op = "setup_networking_config"
    /\ last.ev[1].base_url = << >> /\ net.base_url = "v1"
    /\ last.ev[1].private_key = << >> /\ net.private_key = "v2"
    /\ last.ev[1].pubkey = << "v2" >> /\ net.pubkey = "v2"
    /\ last.ev[1].did_key = << "v1" >> /\ net.did_key = "v1"

\* Both tasks have called setup and both calls have returned.
SetupDone == \A t \in Tasks : setup.call[t].at = Returned

\* The values the calls supplied for a field.
Supplied(f) ==
    { setup.call[t].args[f][1] :
          t \in { s \in Tasks : setup.call[s].args[f] # << >> } }

C21_FieldsFromCalls ==
    SetupDone =>
        \A f \in FieldNames :
            IF Supplied(f) # {} THEN net[f] \in Supplied(f)
            ELSE net[f] = setup.before[f]

C21_NoCallBlocks ==
    \A t \in Tasks :
        (setup.call[t].at \in DOMAIN Fields) ~> (setup.call[t].at = Returned)

\* C21: when two tasks run NetworkingConfig::setup concurrently, each field
\* ends with a value one of the calls supplied, or with its previous value
\* when neither supplied one, and every call that began returns.  (The fields
\* are not set atomically: see the witness.)
C21_ConcurrentSetup == []C21_FieldsFromCalls /\ C21_NoCallBlocks

\* Both calls supplied base_url and pubkey and have returned; base_url holds
\* the value of the first task and pubkey the value of the second.
C21_Witness ==
    /\ SetupDone
    /\ \A t \in Tasks : /\ setup.call[t].args.base_url # << >>
                        /\ setup.call[t].args.pubkey # << >>
    /\ net.base_url = TaskValue("t1")
    /\ net.pubkey = TaskValue("t2")

\* C22: PersistentKeyStore::load(user_id) when nothing was persisted for
\* user_id is not an error: it returns success and the keystore map is empty.
C22_MissingKeystoreLoadsEmpty ==
    [][ (last'.op = "load_keystore" /\ disk[last'.u].ks = << >>) =>
            /\ last'.res = "ok"
            /\ last'.ev = << KeyStoreDefault >> ]_vars

\* C23: request signing is deterministic.  Two sign_request calls with the
\* same user_id, body, private key and (supplied) timestamp return the same
\* signature, the same payload_hash and the same timestamp, whatever the
\* clock and the configuration were when each was made.
C23_SigningDeterministic ==
    \A a \in adapter.signed : \A b \in adapter.signed :
        ( /\ a.timestamp # << >>
          /\ a.user_id = b.user_id /\ a.body = b.body
          /\ a.private_key = b.private_key /\ a.timestamp = b.timestamp )
        => a.out = b.out

\* The same user, body, key and timestamp were signed twice, the second time
\* later and with another private key configured than the one passed, and
\* a signature came back.
C23_Witness ==
    \E a \in adapter.signed : \E b \in adapter.signed :
        /\ a.at < b.at
        /\ a.timestamp # << >>
        /\ a.user_id = b.user_id /\ a.body = b.body
        /\ a.private_key = b.private_key /\ a.timestamp = b.timestamp
        /\ a.out.res = "ok"
        /\ net.private_key \notin {"", a.private_key}

\* The request carries a signature and a payload hash, and the hash is the
\* hash of userid, body and timestamp as they are in the request.
SignedRequest(r) ==
    /\ {"userid", "timestamp", "payload_hash", "web3mq_user_signature"}
           \subseteq DOMAIN r.params
    /\ r.params.payload_hash
           = GetPayloadHash(r.params.userid, r.body, r.params.timestamp)

\* C24: every state-changing request the adapter sends to the DS (register
\* key packages, reserve a key package, send commit, send Welcome, pull MLS
\* state) carries a signature and a payload_hash, the hash of
\* user_id || body || decimal(timestamp) for the userid and the timestamp
\* sent in that request.
C24_RequestsAreSigned ==
    adapter.sent # << >> => SignedRequest(adapter.sent[1])

\* C25: join_group with a Welcome whose group id is already in the user's
\* groups returns an error and leaves the existing group entry as it was.
C25_JoinExistingRefused ==
    [][ ( /\ last'.op = "handle_mls_group_event" /\ last'.wire = "Welcome"
          /\ last'.g \in DOMAIN mem[last'.u].groups
          /\ Has(last'.trace, "new_from_welcome")
          /\ NewFromWelcomeOk(mem[last'.u], last'.ev[1]) )
        => /\ last'.res = "err"
           /\ mem'[last'.u].live
           /\ last'.g \in DOMAIN mem'[last'.u].groups
           /\ mem'[last'.u].groups[last'.g] = mem[last'.u].groups[last'.g] ]_vars

\* C26: after a successful join_group a replacement key package has been
\* generated and the pool published: the local pool is not smaller than
\* before the Welcome was processed, and the pool last published to the DS
\* is the local pool.
C26_JoinReplenishesPool ==
    [][ ( /\ last'.op = "handle_mls_group_event" /\ last'.wire = "Welcome"
          /\ last'.res = "ok" )
        => LET u == last'.u
           IN /\ mem'[u].identity.kp \ mem[u].identity.kp # {}
              /\ Cardinality(mem'[u].identity.kp) >= Cardinality(mem[u].identity.kp)
              /\ last'.published = << mem'[u].identity.kp >>
              /\ mem'[u].identity.kp \ ds.used \subseteq ds'.kps[u] ]_vars

\* A user whose pool held the key package of the Welcome has joined.
C26_Witness ==
    /\ last.op = "handle_mls_group_event" /\ last.wire = "Welcome"
    /\ last.res = "ok" /\ last.joined
    /\ last.ev[1].kp \notin mem[last.u].identity.kp
    /\ Cardinality(mem[last.u].identity.kp) = 1
    /\ last.g \in DOMAIN mem[last.u].groups

\* C27: read_msg on a hex message that is not in the cache returns an error
\* whenever MLS processing fails or the processed message is no application
\* message; a commit passed to read_msg is not merged, so the group's epoch
\* and members are unchanged, and nothing is added to the conversation.
C27_ReadMsgOnlyApplication ==
    [][ ( /\ last'.op = "read_msg"
          /\ last'.g \in DOMAIN mem[last'.u].groups
          /\ GetCachedMessage(mem[last'.u].groups[last'.g].conversation,
                              last'.hex[1]) = << >>
          /\ \/ ~ProcessMessageOk(mem[last'.u].groups[last'.g].mls_group,
                                  last'.u, Unhex(last'.hex[1]))
             \/ Unhex(last'.hex[1]).type # "app" )
        => LET G == mem[last'.u].groups[last'.g]
               H == mem'[last'.u].groups[last'.g]
           IN /\ last'.res = "err"
              /\ Epoch(H.mls_group) = Epoch(G.mls_group)
              /\ H.mls_group.members = G.mls_group.members
              /\ H.mls_group.lin = G.mls_group.lin
              /\ H.conversation = G.conversation ]_vars

\* read_msg was given a commit of the group's current epoch, which MLS
\* processes, and returned an error.
C27_Witness ==
    /\ last.op = "read_msg" /\ last.res = "err"
    /\ Unhex(last.hex[1]).type = "commit"
    /\ last.g \in DOMAIN mem[last.u].groups
    /\ ProcessMessageOk(mem[last.u].groups[last.g].mls_group, last.u,
                        Unhex(last.hex[1]))

\* C28: when a user at epoch N of group G processes through
\* handle_mls_group_event a valid commit for epoch N that does not remove the
\* user, the staged commit is merged, the user's epoch on G becomes exactly
\* N + 1, and G stays in groups and group_list.
C28_CommitAdvancesEpoch ==
    [][ ( /\ last'.op = "handle_mls_group_event"
          /\ last'.wire \in {"Private", "Public"}
          /\ last'.ev[1].type = "commit"
          /\ last'.g \in DOMAIN mem[last'.u].groups
          /\ ProcessMessageOk(mem[last'.u].groups[last'.g].mls_group,
                              last'.u, last'.ev[1])
          /\ ~SelfRemoved(last'.ev[1].d, last'.u)
          /\ mem'[last'.u].live )
        => LET u == last'.u
               g == last'.g
           IN /\ Has(last'.trace, "merge_staged_commit")
              /\ g \in DOMAIN mem'[u].groups
              /\ Epoch(mem'[u].groups[g].mls_group)
                     = Epoch(mem[u].groups[g].mls_group) + 1
              /\ mem'[u].groups[g].mls_group.lin
                     = Append(mem[u].groups[g].mls_group.lin, last'.ev[1].d)
              /\ g \in mem[u].group_list => g \in mem'[u].group_list ]_vars

\* A member has processed the external commit of a joiner, which left it in
\* the group: it is one epoch on, the joiner is a member, and the group is
\* listed.
C28_Witness ==
    /\ last.op = "handle_mls_group_event" /\ last.res = "ok"
    /\ last.wire = "Public" /\ last.ev[1].type = "commit"
    /\ last.ev[1].d.kind = "external" /\ last.ev[1].d.by # last.u
    /\ Has(last.trace, "merge_staged_commit") /\ ~last.removed
    /\ last.g \in DOMAIN mem[last.u].groups
    /\ last.g \in mem[last.u].group_list
    /\ last.ev[1].d.by \in mem[last.u].groups[last.g].mls_group.members
    /\ Epoch(mem[last.u].groups[last.g].mls_group) = Len(last.ev[1].parent)

\* C29: processing an ApplicationMessage, a Proposal or an external-join
\* Proposal through handle_mls_group_event leaves the group's epoch, its
\* membership, the groups map and group_list unchanged; proposals are never
\* committed by the inbound path.
C29_NonCommitsChangeNothing ==
    [][ ( /\ last'.op = "handle_mls_group_event"
          /\ last'.wire \in {"Private", "Public"}
          /\ last'.ev[1].type \in {"app", "proposal"}
          /\ last'.g \in DOMAIN mem[last'.u].groups
          /\ ProcessMessageOk(mem[last'.u].groups[last'.g].mls_group,
                              last'.u, last'.ev[1]) )
        => LET u == last'.u
               g == last'.g
               m == mem[u].groups[g].mls_group
               n == mem'[u].groups[g].mls_group
           IN /\ last'.res = "ok"
              /\ ~Has(last'.trace, "merge_staged_commit")
              /\ DOMAIN mem'[u].groups = DOMAIN mem[u].groups
              /\ \A h \in DOMAIN mem[u].groups \ {g} :
                     mem'[u].groups[h] = mem[u].groups[h]
              /\ mem'[u].groups[g].conversation = mem[u].groups[g].conversation
              /\ n.lin = m.lin /\ Epoch(n) = Epoch(m)
              /\ n.members = m.members
              /\ n.pending = m.pending /\ n.active = m.active
              /\ mem'[u].group_list = mem[u].group_list ]_vars

\* A member has processed another member's Remove proposal, and is on the
\* epoch and with the members the proposal was made for.
C29_Witness ==
    /\ last.op = "handle_mls_group_event" /\ last.res = "ok"
    /\ last.ev[1].type = "proposal" /\ last.ev[1].d.kind = "remove"
    /\ last.wire = "Private"
    /\ last.g \in DOMAIN mem[last.u].groups
    /\ mem[last.u].groups[last.g].mls_group.lin = last.ev[1].parent
    /\ last.ev[1].d.target \in mem[last.u].groups[last.g].mls_group.members
    /\ <<last.ev[1].d.by, HsGen>> \in mem[last.u].groups[last.g].mls_group.seen

\* The same with group_list looked at only where it lists every group held.
C29_ListedGroupsChangeNothing ==
    [][ ( /\ last'.op = "handle_mls_group_event"
          /\ last'.wire \in {"Private", "Public"}
          /\ last'.ev[1].type \in {"app", "proposal"}
          /\ last'.g \in DOMAIN mem[last'.u].groups
          /\ ProcessMessageOk(mem[last'.u].groups[last'.g].mls_group,
                              last'.u, last'.ev[1]) )
        => LET u == last'.u
               g == last'.g
               m == mem[u].groups[g].mls_group
               n == mem'[u].groups[g].mls_group
           IN /\ last'.res = "ok"
              /\ ~Has(last'.trace, "merge_staged_commit")
              /\ DOMAIN mem'[u].groups = DOMAIN mem[u].groups
              /\ n.lin = m.lin /\ n.members = m.members
              /\ n.pending = m.pending /\ n.active = m.active
              /\ mem[u].group_list = DOMAIN mem[u].groups
                     => mem'[u].group_list = mem[u].group_list ]_vars

\* C30: join_group removes from the identity's key-package pool exactly those
\* entries whose hash reference equals the new_member reference of some
\* secret in the Welcome; every other pool entry present before the call is
\* still present afterwards.
C30_JoinDropsWelcomedOnly ==
    [][ ( /\ last'.op = "handle_mls_group_event"
          /\ last'.wire = "Welcome"
          /\ mem'[last'.u].live )
        => LET pool == mem[last'.u].identity.kp
               after == mem'[last'.u].identity.kp
               named == last'.ev[1].kp
           IN /\ named \notin after
              /\ pool \ {named} \subseteq after
              /\ after \ pool \subseteq {[o |-> last'.u, n |-> fresh.kp[last'.u] + 1]}
              /\ after \ pool # {} => last'.joined ]_vars

\* A user with two packages in its pool has joined with the Welcome made for
\* one of them: that one is gone, the other is still in the pool.
C30_Witness ==
    /\ last.op = "handle_mls_group_event" /\ last.wire = "Welcome"
    /\ last.res = "ok" /\ last.joined
    /\ last.ev[1].kp \notin mem[last.u].identity.kp
    /\ \E kp \in mem[last.u].identity.kp :
           /\ kp.n < fresh.kp[last.u]
           /\ kp # last.ev[1].kp
           /\ kp \in mem[last.u].keystore.kp

\* C31: in remove the steps occur in the order: send the remove commit to the
\* group, merge the pending commit locally, then publish the group info; the
\* local merge is never performed after, or skipped because of, the
\* group-info publication.
C31_RemoveMergesBeforePublish ==
    last.op = "remove" =>
        /\ Has(last.trace, "merge_pending_commit") =>
               Before(last.trace, "send_commit", "merge_pending_commit")
        /\ Has(last.trace, "publish_group_info") =>
               Before(last.trace, "merge_pending_commit", "publish_group_info")
        /\ Has(last.trace, "send_commit") =>
               Has(last.trace, "merge_pending_commit")

\* The part of it the code keeps: the merge comes after the send of the commit.
C31_RemoveSendsBeforeMerge ==
    last.op = "remove" =>
        (Has(last.trace, "merge_pending_commit") =>
             Before(last.trace, "send_commit", "merge_pending_commit"))

\* C32: if the DS request that sends the commit fails inside
\* add_member_to_group, the call returns an error, no group info is published
\* and no Welcome is sent, the caller's epoch on the group is unchanged, and a
\* later delivery of events through update brings the caller back to a state
\* consistent with the other members: it has applied every commit of the
\* group's log that follows its epoch, and holds no epoch the log does not.
CommitSendFailed(L) ==
    /\ L.op = "add_member_to_group" /\ L.res = "err"
    /\ Has(L.trace, "add_members") /\ ~Has(L.trace, "send_commit")

CaughtUp(U, S, u, g) ==
    LET m == U.groups[g].mls_group
    IN /\ \A i \in DOMAIN S.log[g] :
              S.log[g][i].msg.type = "commit" =>
                  ~ProcessMessageOk(m, u, S.log[g][i].msg)
       /\ \A k \in 2..Len(m.lin) :
              \E i \in DOMAIN S.log[g] :
                  /\ S.log[g][i].msg.d = m.lin[k]
                  /\ S.log[g][i].msg.parent = SubSeq(m.lin, 1, k - 1)

C32_FailedCommitSend ==
    [][ /\ CommitSendFailed(last') =>
               LET u == last'.u
                   g == last'.g
               IN /\ mem'[u].live
                  /\ ds'.log = ds.log
                  /\ ds'.gi = ds.gi
                  /\ ~Has(last'.trace, "publish_group_info")
                  /\ ~Has(last'.trace, "send_welcome")
                  /\ mem'[u].groups[g].mls_group.lin = mem[u].groups[g].mls_group.lin
                  /\ Epoch(mem'[u].groups[g].mls_group)
                         = Epoch(mem[u].groups[g].mls_group)
        /\ ( /\ last'.op = "update" /\ last'.res = "ok"
             /\ mem'[last'.u].live )
           => \A g \in UnsentAdds(mem[last'.u], ds) :
                  g \in DOMAIN mem'[last'.u].groups =>
                      CaughtUp(mem'[last'.u], ds', last'.u, g) ]_vars

\* A user whose add failed at the send of the commit has pulled: it applied a
\* commit of another client, and the unsent commit is no longer pending.
C32_Witness ==
    /\ last.op = "update" /\ last.res = "ok" /\ last.text = "unsent add"
    /\ \E g \in DOMAIN mem[last.u].groups :
           LET m == mem[last.u].groups[g].mls_group
           IN /\ m.pending = << >>
              /\ m.lin[Len(m.lin)].by # last.u
              /\ \E i \in DOMAIN last.ev : /\ last.ev[i].type = "commit"
                                           /\ last.ev[i].d = m.lin[Len(m.lin)]

\* C33: the pull request sent by update carries timestamp_gte equal to the
\* user's mls_sync_timestamp, so events already pulled before that time are
\* not requested again; a failed pull leaves mls_sync_timestamp unchanged.
\* (Time is the number of entries the DS holds plus one, so the entry at
\* position i of a group's log was posted at time i.)
RECURSIVE PostedSince(_, _, _, _, _)
PostedSince(log, i, u, g, since) ==
    IF i > Len(log) THEN << >>
    ELSE IF log[i].to \in {g, u} /\ i >= since
         THEN << log[i].msg >> \o PostedSince(log, i + 1, u, g, since)
         ELSE PostedSince(log, i + 1, u, g, since)

C33_FailedPullKeepsTimestamp ==
    [][ (last'.op = "update" /\ last'.res = "err") =>
            /\ mem'[last'.u].live
            /\ mem'[last'.u].mls_sync_timestamp = mem[last'.u].mls_sync_timestamp
      ]_vars

C33_PullIsIncremental ==
    [][ /\ (last'.op = "update" /\ last'.res = "ok") =>
               \E g \in Groups :
                   last'.ev = PostedSince(ds.log[g], 1, last'.u, g,
                                          mem[last'.u].mls_sync_timestamp)
        /\ (last'.op = "update" /\ last'.res = "err") =>
               mem'[last'.u].mls_sync_timestamp = mem[last'.u].mls_sync_timestamp
      ]_vars

\* C34: read_msg is at-most-once per ciphertext: after read_msg(H, s, g) has
\* returned plaintext p on a User, every later read_msg(H, _, g) on that User
\* returns p from the cache without invoking MLS process_message and without
\* changing the MLS group state or appending to the conversation.  (A read
\* that returned p left H cached with p; as long as that User goes on
\* holding g, H stays cached with p, and a read of a cached H answers from
\* the cache alone.)
SameUserObject(u) ==
    /\ mem[u].live /\ mem'[u].live
    /\ last'.u = u
    /\ last'.op \notin {"load", "initial_user"}

C34_ReadLeavesCached ==
    (last.op = "read_msg" /\ last.res = "ok" /\ last.g \in DOMAIN mem[last.u].groups)
        => GetCachedMessage(mem[last.u].groups[last.g].conversation, last.hex[1])
               = << last.text >>

C34_CachedStays ==
    \A u \in Users :
        SameUserObject(u) =>
            \A g \in DOMAIN mem[u].groups \cap DOMAIN mem'[u].groups :
                \A h \in DOMAIN mem[u].groups[g].conversation.cache :
                    GetCachedMessage(mem'[u].groups[g].conversation, h)
                        = GetCachedMessage(mem[u].groups[g].conversation, h)

C34_CachedReadIsPure ==
    ( /\ last'.op = "read_msg"
      /\ last'.g \in DOMAIN mem[last'.u].groups
      /\ last'.hex[1] \in DOMAIN mem[last'.u].groups[last'.g].conversation.cache )
    => /\ last'.res = "ok"
       /\ << last'.text >> = GetCachedMessage(
                                 mem[last'.u].groups[last'.g].conversation,
                                 last'.hex[1])
       /\ ~Has(last'.trace, "process_message")
       /\ mem' = mem

C34_ReadAtMostOnce ==
    [][ C34_ReadLeavesCached' /\ C34_CachedStays /\ C34_CachedReadIsPure ]_vars

\* A peer's message was read a second time on the same User, after it had
\* used up the message's ratchet generation: the answer came from the cache.
C34_Witness ==
    /\ last.op = "read_msg" /\ last.res = "ok"
    /\ ~Has(last.trace, "process_message")
    /\ SenderOf(last.hex[1]) # last.u
    /\ last.text = Unhex(last.hex[1]).text
    /\ <<SenderOf(last.hex[1]), Unhex(last.hex[1]).gen>>
           \in mem[last.u].groups[last.g].mls_group.seen

\* The same apart from the steps in which join_group replaces a group entry.
C34_ApartFromReplacement ==
    [][ /\ C34_ReadLeavesCached'
        /\ (last'.op = "handle_mls_group_event" /\ last'.wire = "Welcome")
               \/ C34_CachedStays
        /\ C34_CachedReadIsPure ]_vars

\* C35: the sender's plaintext cache survives persistence: send_msg(text, g)
\* returning H, followed by a load of the user from storage and
\* read_msg(H, u, g), returns text; the cache entry for H written by send_msg
\* is still present after save and load.
C35_OwnMessageSurvivesLoad ==
    [][ /\ ( /\ last'.op = "read_msg"
             /\ last'.hex[1] \in air
             /\ SenderOf(last'.hex[1]) = last'.u
             /\ last'.g = Unhex(last'.hex[1]).gid
             /\ last'.g \in DOMAIN mem[last'.u].groups )
           => /\ last'.res = "ok"
              /\ last'.text = Unhex(last'.hex[1]).text
        /\ ( /\ last'.op = "load" /\ last'.res = "ok" )
           => \A g \in DOMAIN mem'[last'.u].groups :
                  \A h \in air :
                      (SenderOf(h) = last'.u /\ Unhex(h).gid = g) =>
                          GetCachedMessage(mem'[last'.u].groups[g].conversation, h)
                              = << Unhex(h).text >> ]_vars

\* The part that holds: read on the User that sent it, the own message comes
\* back from the cache.
C35_OwnMessageWithoutLoad ==
    [][ ( /\ last'.op = "read_msg"
          /\ last.op = "send_msg" /\ last.res = "ok" /\ last.u = last'.u
          /\ last'.hex = last.hex /\ last'.g = last.g )
        => /\ last'.res = "ok"
           /\ last'.text = Unhex(last'.hex[1]).text ]_vars

\* C36: no operation requests a mutable borrow of the identity cell, the
\* groups cell or a group's MLS cell while an earlier borrow of that cell is
\* still live; in particular join_group_externally reaches its
\* replacement-key-package step with no outstanding borrow of identity, so
\* it does not abort with a runtime borrow error there.
C36_NoBorrowAbort ==
    (last.op = "join_group_externally" /\ Has(last.trace, "merge_pending_commit"))
        => last.res # "panic"

\* The other operations abort only where the code unwraps or expects a
\* result (a failed load, an existing group, the key-package fetch, the
\* Welcome send), not at a borrow.
C36_OthersDoNotAbortOnBorrow ==
    (last.res = "panic" /\ last.op \notin {"join_group_externally", "init"})
        => \/ last.op \in {"initial_user", "load", "create_group"}
           \/ last.op = "add_member_to_group"
                /\ (last.trace = << >> \/ Has(last.trace, "publish_group_info"))
           \/ last.op = "update" \/ last.op = "handle_mls_group_event"

\* C37: agreement without forks: any two members of a group that are at the
\* same epoch number hold the same group state (same history, same
\* membership), even when both committed from the same epoch and each merged
\* its own commit before seeing the other's.  (The state of a user: what its
\* last save persisted.)
HoldsGroup(u, g) ==
    /\ LoadResult(disk[u]) = "ok"
    /\ g \in DOMAIN Load(disk[u]).groups
    /\ Load(disk[u]).groups[g].mls_group.active
    /\ u \in Load(disk[u]).groups[g].mls_group.members

StateOf(u, g) == Load(disk[u]).groups[g].mls_group

C37_AgreementWithoutForks ==
    \A u, v \in Users : \A g \in Groups :
        ( /\ HoldsGroup(u, g) /\ HoldsGroup(v, g)
          /\ Epoch(StateOf(u, g)) = Epoch(StateOf(v, g)) )
        => /\ StateOf(u, g).lin = StateOf(v, g).lin
           /\ StateOf(u, g).members = StateOf(v, g).members

\* The part that holds: a member's history is a history of commits the DS
\* holds, each on the epoch before it.
C37_HistoriesAreOnTheLog ==
    \A u \in Users : \A g \in Groups :
        HoldsGroup(u, g) =>
            \A k \in 2..Len(StateOf(u, g).lin) :
                \E i \in DOMAIN ds.log[g] :
                    /\ ds.log[g][i].msg.type = "commit"
                    /\ ds.log[g][i].msg.d = StateOf(u, g).lin[k]
                    /\ ds.log[g][i].msg.parent = SubSeq(StateOf(u, g).lin, 1, k - 1)

\* Two members at one epoch number, with two commits of one epoch on the DS.
C37_TwoHoldersCommitted ==
    \E u, v \in Users : \E g \in Groups :
        /\ u # v /\ HoldsGroup(u, g) /\ HoldsGroup(v, g)
        /\ Epoch(StateOf(u, g)) = Epoch(StateOf(v, g))
        /\ \E i, j \in DOMAIN ds.log[g] :
              /\ i # j
              /\ ds.log[g][i].msg.type = "commit" /\ ds.log[g][j].msg.type = "commit"
              /\ ds.log[g][i].msg.parent = ds.log[g][j].msg.parent

\* C38: add_member_to_group for a group the caller does not have returns the
\* error and has no effect on the DS: no key package of the member is
\* reserved or consumed.
AddToUnknownGroup ==
    /\ last'.op = "add_member_to_group"
    /\ mem[last'.u].live
    /\ last'.g \notin DOMAIN mem[last'.u].groups

C38_UnknownGroupNoDsEffect ==
    [][(AddToUnknownGroup /\ last'.res # "panic")
          => (last'.res = "err" /\ ds' = ds)]_vars

\* ... and the call returns: it does not abort.
C38_UnknownGroupReturns ==
    [][AddToUnknownGroup => last'.res = "err"]_vars

\* The part that holds: the call posts nothing to any group and changes
\* neither the caller's groups nor its stored state.
C38_UnknownGroupNoLocalEffect ==
    [][AddToUnknownGroup =>
          /\ ds'.log = ds.log
          /\ disk' = disk
          /\ mem'[last'.u] = IF last'.res = "panic" THEN NoUser
                             ELSE mem[last'.u]]_vars

\* C39: if join_group fails, the identity's key-package pool and the groups
\* map are the same as before the call.
JoinGroupFailed ==
    /\ last'.op = "handle_mls_group_event"
    /\ last'.wire = "Welcome"
    /\ last'.res = "err"
    /\ mem[last'.u].live

C39_FailedJoinChangesNothing ==
    [][JoinGroupFailed =>
          /\ mem'[last'.u].identity.kp = mem[last'.u].identity.kp
          /\ mem'[last'.u].groups = mem[last'.u].groups]_vars

\* The part that holds: when the MLS library rejects the Welcome, the groups
\* map is as before and the pool has lost at most the package the Welcome
\* names.
C39_RejectedWelcomeKeepsGroups ==
    [][(JoinGroupFailed /\ ~last'.joined) =>
          /\ mem'[last'.u].groups = mem[last'.u].groups
          /\ mem'[last'.u].identity.kp
                = DropWelcomed(mem[last'.u].identity.kp, last'.ev[1])]_vars

\* A rejected Welcome whose package was in the pool.
C39_RejectedWelcomeKeepsPool ==
    [][(JoinGroupFailed /\ ~last'.joined) =>
          mem'[last'.u].identity.kp = mem[last'.u].identity.kp]_vars

\* C40: an add_member_to_group or remove that fails after creating its commit
\* and before merging it leaves the group without a pending commit (so that
\* a later add_member_to_group, remove or send_msg on the group can succeed).
FailedBeforeMerge ==
    /\ last'.op \in {"add_member_to_group", "remove"}
    /\ last'.res = "err"
    /\ Has(last'.trace, "add_members") \/ Has(last'.trace, "remove_members")
    /\ ~Has(last'.trace, "merge_pending_commit")

C40_NoDanglingPendingCommit ==
    [][FailedBeforeMerge =>
          /\ last'.g \in DOMAIN mem'[last'.u].groups
          /\ mem'[last'.u].groups[last'.g].mls_group.pending = << >>]_vars

\* What the code does: the commit stays pending, and the group is as it was
\* apart from that.
C40_FailedCommitStaysPending ==
    [][FailedBeforeMerge =>
          /\ last'.g \in DOMAIN mem'[last'.u].groups
          /\ Len(mem'[last'.u].groups[last'.g].mls_group.pending) = 1
          /\ [mem'[last'.u].groups[last'.g].mls_group EXCEPT !.pending = << >>]
                = mem[last'.u].groups[last'.g].mls_group]_vars

\* ... and the next add_member_to_group or remove on that User and group
\* fails.
C40_BlockedAfterFailure ==
    [][( /\ last'.op \in {"add_member_to_group", "remove"}
         /\ mem[last'.u].live
         /\ last'.g \in DOMAIN mem[last'.u].groups
         /\ mem[last'.u].groups[last'.g].mls_group.pending # << >> )
          => last'.res \in {"err", "panic"}]_vars

====
